---- MODULE Spec2Model ----
(***************************************************************************)
(* A model of the Intel 8080 emulator core of lesurp/emu8080:              *)
(* src/src/cpu_state.rs (Cpu, Ram, System) and src/src/op_code.rs          *)
(* (Instruction).  Addresses and words are 16 bit, bytes are 8 bit; the    *)
(* memory is a Vec<u8> whose length the host chooses.                      *)
(***************************************************************************)
EXTENDS Integers, Sequences, FiniteSets, TLC

VARIABLES
    cpu,    \* Cpu { registers, sp, pc, inte }
    ram,    \* Ram { ram, rom_ranges }
    build,  \* "debug" (overflow checks panic) or "release" (arithmetic wraps)
    last,   \* the last call made on the API and what it returned
    prev,   \* cpu and ram as they were before the last call
    io,     \* the calls made on the InOut capability, oldest first
    todo,   \* the calls the host still has to make (scripted runs)
    steps,  \* number of API calls made so far
    start,  \* cpu and ram at the start of the run
    host    \* the front-end of wasm.rs and lib.rs: its closures, flag and counters

vars == <<cpu, ram, build, last, prev, io, todo, steps, start, host>>

(***************************************************************************)
(* Bounds of the model                                                     *)
(***************************************************************************)
\* length of the byte buffer given to Ram::new
RamSize == 10
\* longest ROM image handed to register_rom
MaxRomLen == 3
\* number of register_rom calls the host of the ROM specification makes
MaxRomCalls == 2
\* length of the byte buffer of the ROM specification
RomRamSize == 6
MaxStoreSteps == 2
MaxLatchSteps == 3
DecodeLen == 3

(***************************************************************************)
(* Words, bytes, bits                                                      *)
(***************************************************************************)
Byte == 0..255
\* the value standing for "this evaluation panicked" (an arithmetic overflow
\* with overflow checks on, or an explicit panic!)
PANIC == 0 - 1

Bit(x, i) == (x \div (2 ^ i)) % 2

And8(a, b) ==
    Bit(a, 0) * Bit(b, 0) + 2 * Bit(a, 1) * Bit(b, 1) + 4 * Bit(a, 2) * Bit(b, 2)
    + 8 * Bit(a, 3) * Bit(b, 3) + 16 * Bit(a, 4) * Bit(b, 4)
    + 32 * Bit(a, 5) * Bit(b, 5) + 64 * Bit(a, 6) * Bit(b, 6)
    + 128 * Bit(a, 7) * Bit(b, 7)

Not8(a) == 255 - a

Or8(a, b) == a + b - And8(a, b)

Xor8(a, b) == a + b - 2 * And8(a, b)

count_ones(a) ==
    Bit(a, 0) + Bit(a, 1) + Bit(a, 2) + Bit(a, 3) + Bit(a, 4) + Bit(a, 5)
    + Bit(a, 6) + Bit(a, 7)

\* u16 + u16 and u16 - u16 as the compiler emits them: a panic with overflow
\* checks on (the dev profile), a wrap without them (the release profile)
add16(a, b) ==
    IF a = PANIC \/ b = PANIC THEN PANIC
    ELSE IF a + b > 65535 THEN (IF build = "debug" THEN PANIC ELSE a + b - 65536)
    ELSE a + b

sub16(a, b) ==
    IF a = PANIC \/ b = PANIC THEN PANIC
    ELSE IF a - b < 0 THEN (IF build = "debug" THEN PANIC ELSE a - b + 65536)
    ELSE a - b

\* u8 += 1
inc8(a) == IF a = 255 THEN (IF build = "debug" THEN PANIC ELSE 0) ELSE a + 1

to_u16(l, h) == h * 256 + l

to_u8(x) == <<x \div 256, x % 256>>

(***************************************************************************)
(* Ram                                                                     *)
(***************************************************************************)
ram_len(r) == Cardinality(DOMAIN r.ram)

ram_new(ram_size) ==
    [ram |-> [a \in 0..(ram_size - 1) |-> 0], rom_ranges |-> <<>>]

\* the mutant of overlaps: only a new range that starts inside a recorded one
\* is seen to overlap
overlaps_one_sided(sr, er, s, e) == s >= sr /\ er > s

\* the test of the loop of register_rom: [s, e) is the new range, [sr, er) a
\* recorded one
overlaps(sr, er, s, e) == e > sr /\ er > s

\* index of the first recorded range the loop of register_rom returns on, 0
\* when it runs to its end
RECURSIVE rom_scan(_, _, _, _)
rom_scan(ranges, i, s, e) ==
    IF i > Len(ranges) THEN 0
    ELSE IF overlaps(ranges[i][1], ranges[i][1] + ranges[i][2], s, e) THEN i
    ELSE rom_scan(ranges, i + 1, s, e)

rom_overlap(ranges, s, e) == rom_scan(ranges, 1, s, e)

\* the mutant of too_long: a range may end one byte after the buffer
too_long_by_two(e, n) == e > n + 1

\* the first test of register_rom: the new range ends at e, the buffer has n
\* bytes
too_long(e, n) == e > n

\* the mutant of register_rom: the range is recorded before the ranges are
\* scanned, so a refused image leaves its range behind
register_rom_records_first(r, rom, offset) ==
    LET s == offset
        e == s + Len(rom)
        hit == rom_overlap(r.rom_ranges, s, e)
        pushed == [r EXCEPT !.rom_ranges = Append(@, <<s, e - s>>)]
    IN  IF too_long(e, ram_len(r))
        THEN [ram |-> r, st |-> "TooLongRomSection",
              err |-> <<offset, Len(rom), ram_len(r)>>]
        ELSE IF hit # 0
        THEN [ram |-> pushed, st |-> "OverlappingRomSections",
              err |-> <<r.rom_ranges[hit][1], r.rom_ranges[hit][2], offset, e - s>>]
        ELSE [ram |-> [pushed EXCEPT !.ram = [a \in DOMAIN r.ram |->
                                                 IF a >= s /\ a < e THEN rom[a - s + 1]
                                                 ELSE r.ram[a]]],
              st |-> "Ok", err |-> <<>>]

\* Ram::register_rom(rom, offset): [ram, st, err]
register_rom(r, rom, offset) ==
    LET s == offset
        e == s + Len(rom)
        hit == rom_overlap(r.rom_ranges, s, e)
    IN  IF too_long(e, ram_len(r))
        THEN [ram |-> r, st |-> "TooLongRomSection",
              err |-> <<offset, Len(rom), ram_len(r)>>]
        ELSE IF hit # 0
        THEN [ram |-> r, st |-> "OverlappingRomSections",
              err |-> <<r.rom_ranges[hit][1], r.rom_ranges[hit][2], offset, e - s>>]
        ELSE [ram |-> [ram |-> [a \in DOMAIN r.ram |->
                                   IF a >= s /\ a < e THEN rom[a - s + 1]
                                   ELSE r.ram[a]],
                       rom_ranges |-> Append(r.rom_ranges, <<s, e - s>>)],
              st |-> "Ok", err |-> <<>>]

\* Ram::get(addr): [st, v]
ram_get(r, addr) ==
    IF addr = PANIC THEN [st |-> "Panic", v |-> 0]
    ELSE IF addr < ram_len(r) THEN [st |-> "Ok", v |-> r.ram[addr]]
    ELSE [st |-> "OutOfBoundRead", v |-> addr]

\* Ram::get_mut(addr): the status of the borrow.  The loop over rom_ranges
\* is commented out in the source, so only the bound decides.
ram_get_mut(r, addr) ==
    IF addr = PANIC THEN "Panic"
    ELSE IF addr < ram_len(r) THEN "Ok"
    ELSE "OutOfBoundRead"

\* *ram.get_mut(addr)? = value
ram_store(r, addr, value) ==
    IF ram_get_mut(r, addr) = "Ok"
    THEN [r EXCEPT !.ram[addr] = value]
    ELSE r

(***************************************************************************)
(* Register, RegisterPair, Flag, Instruction (op_code.rs, cpu_state.rs)    *)
(***************************************************************************)
\* enum Register: the index into Cpu::registers; M is memory through HL
A == 0
F == 1
B == 2
C == 3
D == 4
E == 5
H == 6
L == 7
M == 8

\* enum Flag: the bit of F
Flag_S == 7
Flag_Z == 6
Flag_Ac == 4
Flag_P == 2
Flag_Cy == 0

\* enum RegisterPair is kept by name: "PSW", "B", "D", "H", "SP"

\* An Instruction value: op is the variant, and of the other fields those
\* the variant carries are meaningful: r, s registers (Mov(r, s)), rp the
\* pair, b the data byte (Rst's number, Lxi's low byte), b2 Lxi's high byte,
\* addr the 16-bit operand.
Ins(op, r, s, rp, b, b2, addr) ==
    [op |-> op, r |-> r, s |-> s, rp |-> rp, b |-> b, b2 |-> b2, addr |-> addr]

I0(op) == Ins(op, 0, 0, "B", 0, 0, 0)
IReg(op, r) == Ins(op, r, 0, "B", 0, 0, 0)
IPair(op, rp) == Ins(op, 0, 0, rp, 0, 0, 0)
IByte(op, b) == Ins(op, 0, 0, "B", b, 0, 0)
IAddr(op, addr) == Ins(op, 0, 0, "B", 0, 0, addr)
IMov(dst, src) == Ins("Mov", dst, src, "B", 0, 0, 0)
IMvi(dst, b) == Ins("Mvi", dst, 0, "B", b, 0, 0)
ILxi(rp, lb, hb) == Ins("Lxi", 0, 0, rp, lb, hb, 0)

OpsAddr == {"Lxi", "Shld", "Lhld", "Sta", "Lda", "Jnz", "Jmp", "Cnz", "Jz", "Cz",
            "Call", "Jnc", "Cnc", "Jc", "Cc", "Jpo", "Cpo", "Jpe", "Cpe", "Jp",
            "Cp", "Jm", "Cm"}

OpsByte == {"Mvi", "Adi", "Aci", "Out", "Sui", "In", "Sbi", "Ani", "Xri", "Ori",
            "Cpi"}

\* the mutant of size: IN and OUT counted without their port byte
size_without_port(i) ==
    IF i.op \in OpsAddr THEN 3
    ELSE IF i.op \in OpsByte \ {"In", "Out"} THEN 2
    ELSE 1

\* Instruction::size
size(i) ==
    IF i.op \in OpsAddr THEN 3
    ELSE IF i.op \in OpsByte THEN 2
    ELSE 1

\* Instruction::cycles: the arms in the order of the match
cycles(i) ==
    IF i.op = "Xthl" THEN 18
    ELSE IF i.op = "Call" THEN 17
    ELSE IF i.op \in {"Shld", "Lhld"} THEN 16
    ELSE IF i.op \in {"Sta", "Lda"} THEN 13
    ELSE IF i.op \in {"Cc", "Cnc", "Cz", "Cnz", "Cp", "Cm", "Cpe", "Cpo", "Rst",
                      "Push"} THEN 11
    ELSE IF \/ i.op \in {"Dad", "Pop", "In", "Out", "Lxi", "Ret", "Jmp", "Jc",
                         "Jnc", "Jz", "Jnz", "Jp", "Jm", "Jpe", "Jpo"}
            \/ (i.op \in {"Inr", "Dcr", "Mvi"} /\ i.r = M) THEN 10
    ELSE IF \/ i.op \in {"Hlt", "Ldax", "Stax", "Adi", "Aci", "Sui", "Sbi", "Ani",
                         "Xri", "Ori", "Cpi", "Mvi"}
            \/ (i.op \in {"Add", "Adc", "Sub", "Sbb", "Xra", "Ora", "Cmp"}
                /\ i.r = M)
            \/ (i.op = "Mov" /\ (i.r = M \/ i.s = M)) THEN 7
    ELSE IF i.op \in {"Pchl", "Sphl", "Rc", "Rnc", "Rz", "Rnz", "Rp", "Rm", "Rpe",
                      "Rpo", "Dcx", "Inx", "Mov", "Inr", "Dcr"} THEN 5
    ELSE 4

\* RegisterPair::split: (high, low); SP panics
split(rp) ==
    CASE rp = "PSW" -> <<A, F>>
      [] rp = "B" -> <<B, C>>
      [] rp = "D" -> <<D, E>>
      [] rp = "H" -> <<H, L>>
      [] OTHER -> <<PANIC, PANIC>>

(***************************************************************************)
(* Arithmetic primitives (cpu_state.rs)                                    *)
(***************************************************************************)
\* add_u8_with_cy: <<out, cy, ac>>
add_u8_with_cy(a, b, cy) ==
    LET out == (a + b + (IF cy THEN 1 ELSE 0)) % 256
        ac == And8(15, a) + And8(15, b) > 15
    IN  <<out, out < a, ac>>

\* the mutant of add_u8: a carry is always added in
add_u8_carry_in(a, b) == add_u8_with_cy(a, b, TRUE)

add_u8(a, b) == add_u8_with_cy(a, b, FALSE)

\* add_u16: <<out, cy>>
add_u16(a, b) ==
    LET out == (a + b) % 65536
    IN  <<out, out < a>>

\* the mutant of sub_u8_with_cy: the borrow is read off the wrong comparison
sub_u8_with_cy_ge(a, b, cy) ==
    LET out == (a - b - (IF cy THEN 1 ELSE 0) + 512) % 256
        ac == And8(15, a) + And8(15, Not8(b)) > 15
    IN  <<out, out >= a, ac>>

\* sub_u8_with_cy: <<out, cy, ac>>
sub_u8_with_cy(a, b, cy) ==
    LET out == (a - b - (IF cy THEN 1 ELSE 0) + 512) % 256
        ac == And8(15, a) + And8(15, Not8(b)) > 15
    IN  <<out, out > a, ac>>

sub_u8(a, b) == sub_u8_with_cy(a, b, FALSE)

(***************************************************************************)
(* Cpu                                                                     *)
(***************************************************************************)
\* Cpu::new
\* the mutant of cpu_new: the machine is built with interrupts enabled
cpu_new_enabled(pc) ==
    [registers |-> [i \in 0..7 |-> 0], sp |-> 61440, pc |-> pc, inte |-> TRUE]

cpu_new(pc) ==
    [registers |-> [i \in 0..7 |-> 0], sp |-> 61440, pc |-> pc, inte |-> FALSE]

flags(c) == c.registers[F]

z(c) == Bit(flags(c), Flag_Z) # 0
s(c) == Bit(flags(c), Flag_S) # 0
p(c) == Bit(flags(c), Flag_P) # 0
cy(c) == Bit(flags(c), Flag_Cy) # 0
ac(c) == Bit(flags(c), Flag_Ac) # 0

\* Cpu::set, Cpu::clear, Cpu::toggle
cpu_set(c, bit) ==
    [c EXCEPT !.registers[F] = @ + (1 - Bit(@, bit)) * (2 ^ bit)]

cpu_clear(c, bit) ==
    [c EXCEPT !.registers[F] = @ - Bit(@, bit) * (2 ^ bit)]

toggle(c, bit, value) == IF value THEN cpu_set(c, bit) ELSE cpu_clear(c, bit)

\* Cpu::update_flags and its three variants
update_flags(c, byte) ==
    toggle(toggle(toggle(c, Flag_S, byte >= 128), Flag_Z, byte = 0),
           Flag_P, count_ones(byte) % 2 = 0)

update_flags_with_carry(c, byte, cyv) ==
    toggle(update_flags(c, byte), Flag_Cy, cyv)

update_flags_with_carries(c, byte, cyv, acv) ==
    toggle(toggle(update_flags(c, byte), Flag_Cy, cyv), Flag_Ac, acv)

\* the mutant of update_flags_with_ac: the auxiliary carry lands in CY too
update_flags_with_ac_in_cy(c, byte, acv) ==
    update_flags_with_carries(c, byte, acv, acv)

update_flags_with_ac(c, byte, acv) ==
    toggle(update_flags(c, byte), Flag_Ac, acv)

\* Cpu::get_rp: the pair as a word; SP panics in split
get_rp(c, rp) ==
    LET hl == split(rp)
    IN  IF hl[1] = PANIC THEN PANIC
        ELSE to_u16(c.registers[hl[2]], c.registers[hl[1]])

(***************************************************************************)
(* System: a machine value m is [cpu, ram, io, st]; st is "Ok" until a     *)
(* step fails ("OutOfBoundRead", "OpCode": the Err an execute returns) or  *)
(* panics ("Panic").  A failed step keeps what was written before it.      *)
(***************************************************************************)
Fail(m, st) == [m EXCEPT !.st = st]

\* *self.ram.get_mut(addr)? = value
Store(m, addr, value) ==
    IF m.st # "Ok" THEN m
    ELSE IF ram_get_mut(m.ram, addr) = "Ok"
    THEN [m EXCEPT !.ram = ram_store(m.ram, addr, value)]
    ELSE Fail(m, ram_get_mut(m.ram, addr))

\* *self.cpu.get_mut(reg) = value; Cpu::get_mut panics on M
SetReg(m, reg, value) ==
    IF m.st # "Ok" THEN m
    ELSE IF reg = M \/ reg = PANIC \/ value = PANIC THEN Fail(m, "Panic")
    ELSE [m EXCEPT !.cpu.registers[reg] = value]

\* self.cpu.sp = value
SetSp(m, value) ==
    IF m.st # "Ok" THEN m
    ELSE IF value = PANIC THEN Fail(m, "Panic")
    ELSE [m EXCEPT !.cpu.sp = value]

\* System::a
a(m) == m.cpu.registers[A]

\* the word in H, L
hl(m) == get_rp(m.cpu, "H")

\* System::get and System::read: [st, v]
sys_get(m, reg) ==
    IF reg = M THEN ram_get(m.ram, hl(m))
    ELSE [st |-> "Ok", v |-> m.cpu.registers[reg]]

\* *self.get_mut(reg)? = value and *self.write(dst)? = value
sys_put(m, reg, value) ==
    IF reg = M THEN Store(m, hl(m), value) ELSE SetReg(m, reg, value)

\* A <- out and the five flags, from a primitive's <<out, cy, ac>>
alu_a(m, r) ==
    [m EXCEPT !.cpu = update_flags_with_carries(
                          [m.cpu EXCEPT !.registers[A] = r[1]], r[1], r[2], r[3])]

\* the five flags alone
alu_f(m, r) ==
    [m EXCEPT !.cpu = update_flags_with_carries(m.cpu, r[1], r[2], r[3])]

\* the mutant of logic_a: S/Z/P from the result, CY left as it was
logic_a_keeps_cy(m, out) ==
    [m EXCEPT !.cpu = update_flags([m.cpu EXCEPT !.registers[A] = out], out)]

\* A <- out, S/Z/P from it and CY cleared
logic_a(m, out) ==
    [m EXCEPT !.cpu = update_flags_with_carry(
                          [m.cpu EXCEPT !.registers[A] = out], out, FALSE)]

\* the mutant of push: the two bytes land in each other's place
push_swapped(m, rp) ==
    LET v == get_rp(m.cpu, rp)
    IN  IF v = PANIC THEN Fail(m, "Panic")
        ELSE SetSp(Store(Store(m, sub16(m.cpu.sp, 2), to_u8(v)[1]),
                         sub16(m.cpu.sp, 1), to_u8(v)[2]),
                   sub16(m.cpu.sp, 2))

\* System::push
push(m, rp) ==
    LET v == get_rp(m.cpu, rp)
    IN  IF v = PANIC THEN Fail(m, "Panic")
        ELSE SetSp(Store(Store(m, sub16(m.cpu.sp, 2), to_u8(v)[2]),
                         sub16(m.cpu.sp, 1), to_u8(v)[1]),
                   sub16(m.cpu.sp, 2))

\* System::pop
pop(m, rp) ==
    LET r == split(rp)
        g1 == ram_get(m.ram, m.cpu.sp)
        m1 == IF g1.st = "Ok" THEN SetReg(m, r[2], g1.v) ELSE Fail(m, g1.st)
        g2 == ram_get(m.ram, add16(m.cpu.sp, 1))
        m2 == IF m1.st # "Ok" THEN m1
              ELSE IF g2.st = "Ok" THEN SetReg(m1, r[1], g2.v)
              ELSE Fail(m1, g2.st)
    IN  IF r[1] = PANIC THEN Fail(m, "Panic")
        ELSE SetSp(m2, add16(m.cpu.sp, 2))

\* System::sui
sui(m, byte) == alu_a(m, sub_u8(a(m), byte))

\* System::sbb
sbb(m, reg) ==
    LET g == sys_get(m, reg)
    IN  IF g.st # "Ok" THEN Fail(m, g.st)
        ELSE alu_a(m, sub_u8_with_cy(a(m), g.v, cy(m.cpu)))

\* System::sbi
sbi(m, byte) == alu_a(m, sub_u8_with_cy(a(m), byte, cy(m.cpu)))

\* System::stax
stax(m, rp) == Store(m, get_rp(m.cpu, rp), a(m))

\* System::daa
daa(m) ==
    LET a0 == a(m)
        lower_bits == And8(15, a0)
        r1 == add_u8(a0, 6)
        upper_bits == And8(240, r1[1]) \div 16
        r2 == add_u8(r1[1], 96)
    IN  IF lower_bits <= 9 /\ ~ac(m.cpu) THEN m
        ELSE IF upper_bits <= 9 /\ ~r1[2] THEN alu_a(m, r1)
        ELSE alu_a(m, r2)

\* System::ral: (0x80 & a) == 1 never holds
ral(m) ==
    LET a0 == a(m)
        next_cy == And8(128, a0) = 1
        a1 == IF cy(m.cpu) THEN Or8((a0 * 2) % 256, 1) ELSE (a0 * 2) % 256
    IN  [m EXCEPT !.cpu = [toggle(m.cpu, Flag_Cy, next_cy)
                              EXCEPT !.registers[A] = a1]]

\* System::rar
rar(m) ==
    LET a0 == a(m)
        next_cy == And8(1, a0) = 1
        a1 == IF cy(m.cpu) THEN Or8(a0 \div 2, 128) ELSE a0 \div 2
    IN  [m EXCEPT !.cpu = [toggle(m.cpu, Flag_Cy, next_cy)
                              EXCEPT !.registers[A] = a1]]

\* System::rrc
rrc(m) ==
    LET a0 == a(m)
    IN  [m EXCEPT !.cpu = [toggle(m.cpu, Flag_Cy, And8(a0, 1) = 1)
                              EXCEPT !.registers[A] = (a0 \div 2) + 128 * (a0 % 2)]]

\* System::lhld
lhld(m, addr) ==
    LET g1 == ram_get(m.ram, addr)
        g2 == ram_get(m.ram, add16(addr, 1))
    IN  IF g1.st # "Ok" THEN Fail(m, g1.st)
        ELSE IF g2.st # "Ok" THEN Fail(m, g2.st)
        ELSE SetReg(SetReg(m, L, g1.v), H, g2.v)

\* System::shld
shld(m, addr) ==
    Store(Store(m, addr, m.cpu.registers[L]), add16(addr, 1), m.cpu.registers[H])

\* System::pchl
pchl(m) == m.cpu.registers[H] * 256 + m.cpu.registers[L]

\* the mutant of output: the port is written twice
output_twice(m, byte) ==
    [m EXCEPT !.io = Append(Append(@, <<"write", byte, a(m)>>), <<"write", byte, a(m)>>)]

\* System::output: io.write(byte, a)
output(m, byte) == [m EXCEPT !.io = Append(@, <<"write", byte, a(m)>>)]

\* System::input: a <- io.read(byte), inb the byte the device answers
input(m, byte, inb) ==
    SetReg([m EXCEPT !.io = Append(@, <<"read", byte, inb>>)], A, inb)

\* System::sta
sta(m, addr) == Store(m, addr, a(m))

\* System::xra, ana, ora
xra(m, reg) ==
    LET g == sys_get(m, reg)
    IN  IF g.st # "Ok" THEN Fail(m, g.st) ELSE logic_a(m, Xor8(a(m), g.v))

ana(m, reg) ==
    LET g == sys_get(m, reg)
    IN  IF g.st # "Ok" THEN Fail(m, g.st) ELSE logic_a(m, And8(a(m), g.v))

ora(m, reg) ==
    LET g == sys_get(m, reg)
    IN  IF g.st # "Ok" THEN Fail(m, g.st) ELSE logic_a(m, Or8(a(m), g.v))

\* System::ori, xri, ani
ori(m, byte) == logic_a(m, Or8(byte, a(m)))

xri(m, byte) == logic_a(m, Xor8(byte, a(m)))

ani(m, byte) == logic_a(m, And8(a(m), byte))

\* System::adi, adc, aci, add
adi(m, byte) == alu_a(m, add_u8(a(m), byte))

adc(m, reg) ==
    LET g == sys_get(m, reg)
    IN  IF g.st # "Ok" THEN Fail(m, g.st)
        ELSE alu_a(m, add_u8_with_cy(a(m), g.v, cy(m.cpu)))

aci(m, byte) == alu_a(m, add_u8_with_cy(a(m), byte, cy(m.cpu)))

add(m, reg) ==
    LET g == sys_get(m, reg)
    IN  IF g.st # "Ok" THEN Fail(m, g.st) ELSE alu_a(m, add_u8(a(m), g.v))

\* System::sub, cmp, cpi
sub(m, reg) ==
    LET g == sys_get(m, reg)
    IN  IF g.st # "Ok" THEN Fail(m, g.st) ELSE alu_a(m, sub_u8(a(m), g.v))

\* the mutant of cmp: the difference is kept in A
cmp_keeps_difference(m, reg) == sub(m, reg)

cmp(m, reg) ==
    LET g == sys_get(m, reg)
    IN  IF g.st # "Ok" THEN Fail(m, g.st) ELSE alu_f(m, sub_u8(a(m), g.v))

cpi(m, byte) == alu_f(m, sub_u8(a(m), byte))

\* the mutant of ret: the two bytes are read in each other's place
ret_swapped(m) ==
    LET g1 == ram_get(m.ram, m.cpu.sp)
        g2 == ram_get(m.ram, add16(m.cpu.sp, 1))
    IN  IF g1.st # "Ok" THEN [m |-> Fail(m, g1.st), v |-> 0]
        ELSE IF g2.st # "Ok" THEN [m |-> Fail(m, g2.st), v |-> 0]
        ELSE [m |-> SetSp(m, add16(m.cpu.sp, 2)), v |-> to_u16(g2.v, g1.v)]

\* System::ret: [m, v], v the popped word
ret(m) ==
    LET g1 == ram_get(m.ram, m.cpu.sp)
        g2 == ram_get(m.ram, add16(m.cpu.sp, 1))
    IN  IF g1.st # "Ok" THEN [m |-> Fail(m, g1.st), v |-> 0]
        ELSE IF g2.st # "Ok" THEN [m |-> Fail(m, g2.st), v |-> 0]
        ELSE [m |-> SetSp(m, add16(m.cpu.sp, 2)), v |-> to_u16(g1.v, g2.v)]

\* System::dcr, System::inr
dcr(m, reg) ==
    LET g == IF reg = M THEN [st |-> ram_get_mut(m.ram, hl(m)),
                              v |-> ram_get(m.ram, hl(m)).v]
             ELSE [st |-> "Ok", v |-> m.cpu.registers[reg]]
        r == sub_u8(g.v, 1)
        m1 == sys_put(m, reg, r[1])
    IN  IF g.st # "Ok" THEN Fail(m, g.st)
        ELSE [m1 EXCEPT !.cpu = update_flags_with_ac(m1.cpu, r[1], r[3])]

inr(m, reg) ==
    LET g == IF reg = M THEN [st |-> ram_get_mut(m.ram, hl(m)),
                              v |-> ram_get(m.ram, hl(m)).v]
             ELSE [st |-> "Ok", v |-> m.cpu.registers[reg]]
        r == add_u8(g.v, 1)
        m1 == sys_put(m, reg, r[1])
    IN  IF g.st # "Ok" THEN Fail(m, g.st)
        ELSE [m1 EXCEPT !.cpu = update_flags_with_ac(m1.cpu, r[1], r[3])]

\* System::inx
inx(m, rp) ==
    LET r == split(rp)
    IN  IF r[1] = PANIC THEN Fail(m, "Panic")
        ELSE IF m.cpu.registers[r[2]] = 255
        THEN SetReg(SetReg(m, r[2], 0), r[1], inc8(m.cpu.registers[r[1]]))
        ELSE SetReg(m, r[2], m.cpu.registers[r[2]] + 1)

\* System::dcx
dcx(m, rp) ==
    LET r == split(rp)
    IN  IF r[1] = PANIC THEN Fail(m, "Panic")
        ELSE IF m.cpu.registers[r[2]] = 0
        THEN SetReg(SetReg(m, r[2], 255), r[1], (m.cpu.registers[r[1]] + 255) % 256)
        ELSE SetReg(m, r[2], m.cpu.registers[r[2]] - 1)

\* System::ldax, System::lda
ldax(m, rp) ==
    LET g == ram_get(m.ram, get_rp(m.cpu, rp))
    IN  IF g.st # "Ok" THEN Fail(m, g.st) ELSE SetReg(m, A, g.v)

lda(m, addr) ==
    LET g == ram_get(m.ram, addr)
    IN  IF g.st # "Ok" THEN Fail(m, g.st) ELSE SetReg(m, A, g.v)

\* System::dad
dad(m, rp) ==
    LET to_add == get_rp(m.cpu, rp)
        r == add_u16(to_add, hl(m))
    IN  IF to_add = PANIC THEN Fail(m, "Panic")
        ELSE SetReg(SetReg([m EXCEPT !.cpu = toggle(m.cpu, Flag_Cy, r[2])],
                           H, to_u8(r[1])[1]), L, to_u8(r[1])[2])

\* System::lxi
lxi(m, rp, lb, hb) ==
    IF rp = "SP" THEN SetSp(m, to_u16(lb, hb))
    ELSE SetReg(SetReg(m, split(rp)[1], hb), split(rp)[2], lb)

\* the mutant of call: SP is lowered before the two bytes are stored
call_lowers_sp_first(m, addr, pc) ==
    Store(Store(SetSp(m, sub16(m.cpu.sp, 2)), sub16(m.cpu.sp, 1), pc \div 256),
          sub16(m.cpu.sp, 2), pc % 256)

\* System::call: the machine after the push; the caller takes addr as the pc
call(m, addr, pc) ==
    SetSp(Store(Store(m, sub16(m.cpu.sp, 1), pc \div 256),
                sub16(m.cpu.sp, 2), pc % 256),
          sub16(m.cpu.sp, 2))

\* System::mvi, System::mov
mvi(m, dst, value) == sys_put(m, dst, value)

mov(m, dst, src) ==
    LET g == sys_get(m, src)
    IN  IF g.st # "Ok" THEN Fail(m, g.st) ELSE sys_put(m, dst, g.v)

\* System::xchg
xchg(m) ==
    [m EXCEPT !.cpu.registers = [@ EXCEPT ![D] = m.cpu.registers[H],
                                          ![E] = m.cpu.registers[L],
                                          ![H] = m.cpu.registers[D],
                                          ![L] = m.cpu.registers[E]]]

\* System::xthl
xthl(m) ==
    LET g1 == ram_get(m.ram, m.cpu.sp)
        g2 == ram_get(m.ram, add16(m.cpu.sp, 1))
        m1 == Store(Store(m, m.cpu.sp, m.cpu.registers[L]),
                    add16(m.cpu.sp, 1), m.cpu.registers[H])
    IN  IF g1.st # "Ok" THEN Fail(m, g1.st)
        ELSE IF g2.st # "Ok" THEN Fail(m, g2.st)
        ELSE SetReg(SetReg(m1, L, g1.v), H, g2.v)

\* the match of System::execute: [m, pc], the machine after the arm and the
\* value the arm leaves in the local pc (pc0 on entry: self.cpu.pc + size)
dispatch(m, i, pc0, inb) ==
    LET keep(mm) == [m |-> mm, pc |-> pc0]
        callif(taken) == IF taken THEN [m |-> call(m, i.addr, pc0), pc |-> i.addr]
                         ELSE keep(m)
        jumpif(taken) == [m |-> m, pc |-> IF taken THEN i.addr ELSE pc0]
        retif(taken) == IF taken THEN [m |-> ret(m).m, pc |-> ret(m).v]
                        ELSE keep(m)
        c == m.cpu
    IN  CASE i.op = "Nop" -> keep(m)
          [] i.op = "Cc" -> callif(cy(c))
          [] i.op = "Cm" -> callif(s(c))
          [] i.op = "Cp" -> callif(~s(c))
          [] i.op = "Cnc" -> callif(~cy(c))
          [] i.op = "Cpo" -> callif(~p(c))
          [] i.op = "Cpe" -> callif(p(c))
          [] i.op = "Cnz" -> callif(~z(c))
          [] i.op = "Cz" -> callif(z(c))
          [] i.op = "Jnz" -> jumpif(~z(c))
          [] i.op = "Jz" -> jumpif(z(c))
          [] i.op = "Jc" -> jumpif(cy(c))
          [] i.op = "Jnc" -> jumpif(~cy(c))
          [] i.op = "Jpo" -> jumpif(~p(c))
          [] i.op = "Jpe" -> jumpif(p(c))
          [] i.op = "Jm" -> jumpif(s(c))
          [] i.op = "Jp" -> jumpif(~s(c))
          [] i.op = "Rz" -> retif(z(c))
          [] i.op = "Rm" -> retif(s(c))
          [] i.op = "Rp" -> retif(~s(c))
          [] i.op = "Rnz" -> retif(~z(c))
          [] i.op = "Rpe" -> retif(p(c))
          [] i.op = "Rpo" -> retif(~p(c))
          [] i.op = "Rc" -> retif(cy(c))
          [] i.op = "Rnc" -> retif(~cy(c))
          [] i.op = "Cma" -> keep(SetReg(m, A, Not8(a(m))))
          [] i.op = "Push" -> keep(push(m, i.rp))
          [] i.op = "Pop" -> keep(pop(m, i.rp))
          [] i.op = "Cpi" -> keep(cpi(m, i.b))
          [] i.op = "Ret" -> retif(TRUE)
          [] i.op = "Dcr" -> keep(dcr(m, i.r))
          [] i.op = "Inx" -> keep(inx(m, i.rp))
          [] i.op = "Dcx" -> keep(dcx(m, i.rp))
          [] i.op = "Inr" -> keep(inr(m, i.r))
          [] i.op = "Ldax" -> keep(ldax(m, i.rp))
          [] i.op = "Lda" -> keep(lda(m, i.addr))
          [] i.op = "Dad" -> keep(dad(m, i.rp))
          [] i.op = "Lxi" -> keep(lxi(m, i.rp, i.b, i.b2))
          [] i.op = "Jmp" -> jumpif(TRUE)
          [] i.op = "Call" -> callif(TRUE)
          [] i.op = "Mvi" -> keep(mvi(m, i.r, i.b))
          [] i.op = "Mov" -> keep(mov(m, i.r, i.s))
          [] i.op = "Xchg" -> keep(xchg(m))
          [] i.op = "Xthl" -> keep(xthl(m))
          [] i.op = "Rrc" -> keep(rrc(m))
          [] i.op = "Ani" -> keep(ani(m, i.b))
          [] i.op = "Adi" -> keep(adi(m, i.b))
          [] i.op = "Aci" -> keep(aci(m, i.b))
          [] i.op = "Sta" -> keep(sta(m, i.addr))
          [] i.op = "Xra" -> keep(xra(m, i.r))
          [] i.op = "Ana" -> keep(ana(m, i.r))
          [] i.op = "Ora" -> keep(ora(m, i.r))
          [] i.op = "Ori" -> keep(ori(m, i.b))
          [] i.op = "Xri" -> keep(xri(m, i.b))
          [] i.op = "Out" -> keep(output(m, i.b))
          [] i.op = "In" -> keep(input(m, i.b, inb))
          [] i.op = "Sui" -> keep(sui(m, i.b))
          [] i.op = "Sbb" -> keep(sbb(m, i.r))
          [] i.op = "Adc" -> keep(adc(m, i.r))
          [] i.op = "Sbi" -> keep(sbi(m, i.b))
          [] i.op = "Stax" -> keep(stax(m, i.rp))
          [] i.op = "Add" -> keep(add(m, i.r))
          [] i.op = "Sub" -> keep(sub(m, i.r))
          [] i.op = "Cmp" -> keep(cmp(m, i.r))
          [] i.op = "Stc" -> keep([m EXCEPT !.cpu = cpu_set(c, Flag_Cy)])
          [] i.op = "Cmc" -> keep([m EXCEPT !.cpu = toggle(c, Flag_Cy, ~cy(c))])
          [] i.op = "Daa" -> keep(daa(m))
          [] i.op = "Rar" -> keep(rar(m))
          [] i.op = "Ral" -> keep(ral(m))
          [] i.op = "Lhld" -> keep(lhld(m, i.addr))
          [] i.op = "Shld" -> keep(shld(m, i.addr))
          [] i.op = "Ei" -> keep([m EXCEPT !.cpu.inte = TRUE])
          [] i.op = "Di" -> keep([m EXCEPT !.cpu.inte = FALSE])
          [] i.op = "Pchl" -> [m |-> m, pc |-> pchl(m)]
          [] i.op = "Rst" -> [m |-> call(m, 8 * i.b, pc0), pc |-> 8 * i.b]
          [] OTHER -> keep(Fail(m, "OpCode"))

\* the mutant of execute_end: the pc is left where execute found it
execute_end_keeps_pc(d, n) ==
    IF d.m.st # "Ok" THEN [m |-> d.m, v |-> 0]
    ELSE [m |-> d.m, v |-> n]

\* the end of System::execute, d what the match left and n the cycle count:
\* an arm's `?` or panic leaves before `self.cpu.pc = pc; Ok(cycles)`
execute_end(d, n) ==
    IF d.m.st # "Ok" THEN [m |-> d.m, v |-> 0]
    ELSE [m |-> [d.m EXCEPT !.cpu.pc = d.pc], v |-> n]

\* System::execute: [m, v]; m.st is "Ok" for Ok(v), v the cycle count
execute(m, i, inb) ==
    IF add16(m.cpu.pc, size(i)) = PANIC THEN [m |-> Fail(m, "Panic"), v |-> 0]
    ELSE execute_end(dispatch(m, i, add16(m.cpu.pc, size(i)), inb), cycles(i))

\* the mutant of process: the latch is not consulted
process_ungated(m, i, inb) == execute(m, i, inb)

\* System::process
process(m, i, inb) ==
    IF m.cpu.inte THEN execute(m, i, inb) ELSE [m |-> m, v |-> 0]

(***************************************************************************)
(* The decoder (op_code.rs)                                                *)
(***************************************************************************)
\* what a panic! of the decoder leaves in place of an instruction
Panicked == I0("panic!")

\* two_arg_op_code; addr = ((arg2 as u16) << 8) | (arg1 as u16)
two_arg_op_code(op_code, arg1, arg2) ==
    CASE op_code = 1 -> ILxi("B", arg1, arg2)
      [] op_code = 17 -> ILxi("D", arg1, arg2)
      [] op_code = 33 -> ILxi("H", arg1, arg2)
      [] op_code = 34 -> IAddr("Shld", to_u16(arg1, arg2))
      [] op_code = 42 -> IAddr("Lhld", to_u16(arg1, arg2))
      [] op_code = 49 -> ILxi("SP", arg1, arg2)
      [] op_code = 50 -> IAddr("Sta", to_u16(arg1, arg2))
      [] op_code = 58 -> IAddr("Lda", to_u16(arg1, arg2))
      [] op_code = 194 -> IAddr("Jnz", to_u16(arg1, arg2))
      [] op_code = 195 -> IAddr("Jmp", to_u16(arg1, arg2))
      [] op_code = 196 -> IAddr("Cnz", to_u16(arg1, arg2))
      [] op_code = 202 -> IAddr("Jz", to_u16(arg1, arg2))
      [] op_code = 204 -> IAddr("Cz", to_u16(arg1, arg2))
      [] op_code = 205 -> IAddr("Call", to_u16(arg1, arg2))
      [] op_code = 210 -> IAddr("Jnc", to_u16(arg1, arg2))
      [] op_code = 212 -> IAddr("Cnc", to_u16(arg1, arg2))
      [] op_code = 218 -> IAddr("Jc", to_u16(arg1, arg2))
      [] op_code = 220 -> IAddr("Cc", to_u16(arg1, arg2))
      [] op_code = 226 -> IAddr("Jpo", to_u16(arg1, arg2))
      [] op_code = 228 -> IAddr("Cpo", to_u16(arg1, arg2))
      [] op_code = 234 -> IAddr("Jpe", to_u16(arg1, arg2))
      [] op_code = 236 -> IAddr("Cpe", to_u16(arg1, arg2))
      [] op_code = 242 -> IAddr("Jp", to_u16(arg1, arg2))
      [] op_code = 244 -> IAddr("Cp", to_u16(arg1, arg2))
      [] op_code = 250 -> IAddr("Jm", to_u16(arg1, arg2))
      [] op_code = 252 -> IAddr("Cm", to_u16(arg1, arg2))
      [] OTHER -> Panicked

\* one_arg_op_code
one_arg_op_code(op_code, arg) ==
    CASE op_code = 6 -> IMvi(B, arg)
      [] op_code = 14 -> IMvi(C, arg)
      [] op_code = 22 -> IMvi(D, arg)
      [] op_code = 30 -> IMvi(E, arg)
      [] op_code = 38 -> IMvi(H, arg)
      [] op_code = 46 -> IMvi(L, arg)
      [] op_code = 54 -> IMvi(M, arg)
      [] op_code = 62 -> IMvi(A, arg)
      [] op_code = 198 -> IByte("Adi", arg)
      [] op_code = 206 -> IByte("Aci", arg)
      [] op_code = 211 -> IByte("Out", arg)
      [] op_code = 214 -> IByte("Sui", arg)
      [] op_code = 219 -> IByte("In", arg)
      [] op_code = 222 -> IByte("Sbi", arg)
      [] op_code = 230 -> IByte("Ani", arg)
      [] op_code = 238 -> IByte("Xri", arg)
      [] op_code = 246 -> IByte("Ori", arg)
      [] op_code = 254 -> IByte("Cpi", arg)
      [] OTHER -> Panicked

\* no_arg_op_code: an opcode without an arm of its own decodes as NOP
no_arg_op_code(op_code) ==
    CASE op_code = 0 -> I0("Nop")
      [] op_code = 2 -> IPair("Stax", "B")
      [] op_code = 3 -> IPair("Inx", "B")
      [] op_code = 4 -> IReg("Inr", B)
      [] op_code = 5 -> IReg("Dcr", B)
      [] op_code = 7 -> I0("Rlc")
      [] op_code = 9 -> IPair("Dad", "B")
      [] op_code = 10 -> IPair("Ldax", "B")
      [] op_code = 11 -> IPair("Dcx", "B")
      [] op_code = 12 -> IReg("Inr", C)
      [] op_code = 13 -> IReg("Dcr", C)
      [] op_code = 15 -> I0("Rrc")
      [] op_code = 18 -> IPair("Stax", "D")
      [] op_code = 19 -> IPair("Inx", "D")
      [] op_code = 20 -> IReg("Inr", D)
      [] op_code = 21 -> IReg("Dcr", D)
      [] op_code = 23 -> I0("Ral")
      [] op_code = 25 -> IPair("Dad", "D")
      [] op_code = 26 -> IPair("Ldax", "D")
      [] op_code = 27 -> IPair("Dcx", "D")
      [] op_code = 28 -> IReg("Inr", E)
      [] op_code = 29 -> IReg("Dcr", E)
      [] op_code = 31 -> I0("Rar")
      [] op_code = 35 -> IPair("Inx", "H")
      [] op_code = 36 -> IReg("Inr", H)
      [] op_code = 37 -> IReg("Dcr", H)
      [] op_code = 39 -> I0("Daa")
      [] op_code = 41 -> IPair("Dad", "H")
      [] op_code = 43 -> IPair("Dcx", "H")
      [] op_code = 44 -> IReg("Inr", L)
      [] op_code = 45 -> IReg("Dcr", L)
      [] op_code = 47 -> I0("Cma")
      [] op_code = 51 -> IPair("Inx", "SP")
      [] op_code = 52 -> IReg("Inr", M)
      [] op_code = 53 -> IReg("Dcr", M)
      [] op_code = 55 -> I0("Stc")
      [] op_code = 57 -> IPair("Dad", "SP")
      [] op_code = 59 -> IPair("Dcx", "SP")
      [] op_code = 60 -> IReg("Inr", A)
      [] op_code = 61 -> IReg("Dcr", A)
      [] op_code = 63 -> I0("Cmc")
      [] op_code = 64 -> IMov(B, B)
      [] op_code = 65 -> IMov(B, C)
      [] op_code = 66 -> IMov(B, D)
      [] op_code = 67 -> IMov(B, E)
      [] op_code = 68 -> IMov(B, H)
      [] op_code = 69 -> IMov(B, L)
      [] op_code = 70 -> IMov(B, M)
      [] op_code = 71 -> IMov(B, A)
      [] op_code = 72 -> IMov(C, B)
      [] op_code = 73 -> IMov(C, C)
      [] op_code = 74 -> IMov(C, D)
      [] op_code = 75 -> IMov(C, E)
      [] op_code = 76 -> IMov(C, H)
      [] op_code = 77 -> IMov(C, L)
      [] op_code = 78 -> IMov(C, M)
      [] op_code = 79 -> IMov(C, A)
      [] op_code = 80 -> IMov(D, B)
      [] op_code = 81 -> IMov(D, C)
      [] op_code = 82 -> IMov(D, D)
      [] op_code = 83 -> IMov(D, E)
      [] op_code = 84 -> IMov(D, H)
      [] op_code = 85 -> IMov(D, L)
      [] op_code = 86 -> IMov(D, M)
      [] op_code = 87 -> IMov(D, A)
      [] op_code = 88 -> IMov(E, B)
      [] op_code = 89 -> IMov(E, C)
      [] op_code = 90 -> IMov(E, D)
      [] op_code = 91 -> IMov(E, E)
      [] op_code = 92 -> IMov(E, H)
      [] op_code = 93 -> IMov(E, L)
      [] op_code = 94 -> IMov(E, M)
      [] op_code = 95 -> IMov(E, A)
      [] op_code = 96 -> IMov(H, B)
      [] op_code = 97 -> IMov(H, C)
      [] op_code = 98 -> IMov(H, D)
      [] op_code = 99 -> IMov(H, E)
      [] op_code = 100 -> IMov(H, H)
      [] op_code = 101 -> IMov(H, L)
      [] op_code = 102 -> IMov(H, M)
      [] op_code = 103 -> IMov(H, A)
      [] op_code = 104 -> IMov(L, B)
      [] op_code = 105 -> IMov(L, C)
      [] op_code = 106 -> IMov(L, D)
      [] op_code = 107 -> IMov(L, E)
      [] op_code = 108 -> IMov(L, H)
      [] op_code = 109 -> IMov(L, L)
      [] op_code = 110 -> IMov(L, M)
      [] op_code = 111 -> IMov(L, A)
      [] op_code = 112 -> IMov(M, B)
      [] op_code = 113 -> IMov(M, C)
      [] op_code = 114 -> IMov(M, D)
      [] op_code = 115 -> IMov(M, E)
      [] op_code = 116 -> IMov(M, H)
      [] op_code = 117 -> IMov(M, L)
      [] op_code = 118 -> I0("Hlt")
      [] op_code = 119 -> IMov(M, A)
      [] op_code = 120 -> IMov(A, B)
      [] op_code = 121 -> IMov(A, C)
      [] op_code = 122 -> IMov(A, D)
      [] op_code = 123 -> IMov(A, E)
      [] op_code = 124 -> IMov(A, H)
      [] op_code = 125 -> IMov(A, L)
      [] op_code = 126 -> IMov(A, M)
      [] op_code = 127 -> IMov(A, A)
      [] op_code = 128 -> IReg("Add", B)
      [] op_code = 129 -> IReg("Add", C)
      [] op_code = 130 -> IReg("Add", D)
      [] op_code = 131 -> IReg("Add", E)
      [] op_code = 132 -> IReg("Add", H)
      [] op_code = 133 -> IReg("Add", L)
      [] op_code = 134 -> IReg("Add", M)
      [] op_code = 135 -> IReg("Add", A)
      [] op_code = 136 -> IReg("Adc", B)
      [] op_code = 137 -> IReg("Adc", C)
      [] op_code = 138 -> IReg("Adc", D)
      [] op_code = 139 -> IReg("Adc", E)
      [] op_code = 140 -> IReg("Adc", H)
      [] op_code = 141 -> IReg("Adc", L)
      [] op_code = 142 -> IReg("Adc", M)
      [] op_code = 143 -> IReg("Adc", A)
      [] op_code = 144 -> IReg("Sub", B)
      [] op_code = 145 -> IReg("Sub", C)
      [] op_code = 146 -> IReg("Sub", D)
      [] op_code = 147 -> IReg("Sub", E)
      [] op_code = 148 -> IReg("Sub", H)
      [] op_code = 149 -> IReg("Sub", L)
      [] op_code = 150 -> IReg("Sub", M)
      [] op_code = 151 -> IReg("Sub", A)
      [] op_code = 152 -> IReg("Sbb", B)
      [] op_code = 153 -> IReg("Sbb", C)
      [] op_code = 154 -> IReg("Sbb", D)
      [] op_code = 155 -> IReg("Sbb", E)
      [] op_code = 156 -> IReg("Sbb", H)
      [] op_code = 157 -> IReg("Sbb", L)
      [] op_code = 158 -> IReg("Sbb", M)
      [] op_code = 159 -> IReg("Sbb", A)
      [] op_code = 160 -> IReg("Ana", B)
      [] op_code = 161 -> IReg("Ana", C)
      [] op_code = 162 -> IReg("Ana", D)
      [] op_code = 163 -> IReg("Ana", E)
      [] op_code = 164 -> IReg("Ana", H)
      [] op_code = 165 -> IReg("Ana", L)
      [] op_code = 166 -> IReg("Ana", M)
      [] op_code = 167 -> IReg("Ana", A)
      [] op_code = 168 -> IReg("Xra", B)
      [] op_code = 169 -> IReg("Xra", C)
      [] op_code = 170 -> IReg("Xra", D)
      [] op_code = 171 -> IReg("Xra", E)
      [] op_code = 172 -> IReg("Xra", H)
      [] op_code = 173 -> IReg("Xra", L)
      [] op_code = 174 -> IReg("Xra", M)
      [] op_code = 175 -> IReg("Xra", A)
      [] op_code = 176 -> IReg("Ora", B)
      [] op_code = 177 -> IReg("Ora", C)
      [] op_code = 178 -> IReg("Ora", D)
      [] op_code = 179 -> IReg("Ora", E)
      [] op_code = 180 -> IReg("Ora", H)
      [] op_code = 181 -> IReg("Ora", L)
      [] op_code = 182 -> IReg("Ora", M)
      [] op_code = 183 -> IReg("Ora", A)
      [] op_code = 184 -> IReg("Cmp", B)
      [] op_code = 185 -> IReg("Cmp", C)
      [] op_code = 186 -> IReg("Cmp", D)
      [] op_code = 187 -> IReg("Cmp", E)
      [] op_code = 188 -> IReg("Cmp", H)
      [] op_code = 189 -> IReg("Cmp", L)
      [] op_code = 190 -> IReg("Cmp", M)
      [] op_code = 191 -> IReg("Cmp", A)
      [] op_code = 192 -> I0("Rnz")
      [] op_code = 193 -> IPair("Pop", "B")
      [] op_code = 197 -> IPair("Push", "B")
      [] op_code = 199 -> IByte("Rst", 0)
      [] op_code = 200 -> I0("Rz")
      [] op_code = 201 -> I0("Ret")
      [] op_code = 207 -> IByte("Rst", 1)
      [] op_code = 208 -> I0("Rnc")
      [] op_code = 209 -> IPair("Pop", "D")
      [] op_code = 213 -> IPair("Push", "D")
      [] op_code = 215 -> IByte("Rst", 2)
      [] op_code = 216 -> I0("Rc")
      [] op_code = 223 -> IByte("Rst", 3)
      [] op_code = 224 -> I0("Rpo")
      [] op_code = 225 -> IPair("Pop", "H")
      [] op_code = 227 -> I0("Xthl")
      [] op_code = 229 -> IPair("Push", "H")
      [] op_code = 231 -> IByte("Rst", 4)
      [] op_code = 232 -> I0("Rpe")
      [] op_code = 233 -> I0("Pchl")
      [] op_code = 235 -> I0("Xchg")
      [] op_code = 239 -> IByte("Rst", 5)
      [] op_code = 240 -> I0("Rp")
      [] op_code = 241 -> IPair("Pop", "PSW")
      [] op_code = 243 -> I0("Di")
      [] op_code = 245 -> IPair("Push", "PSW")
      [] op_code = 247 -> IByte("Rst", 6)
      [] op_code = 248 -> I0("Rm")
      [] op_code = 249 -> I0("Sphl")
      [] op_code = 251 -> I0("Ei")
      [] op_code = 255 -> IByte("Rst", 7)
      [] OTHER -> I0("Nop")

\* the opcodes op_code_to_argsize maps to 3 and to 2
ThreeByteOpCodes ==
    {1, 17, 33, 34, 42, 49, 50, 58, 194, 195, 196, 202, 204, 205, 210, 212,
     218, 220, 226, 228, 234, 236, 242, 244, 250, 252}

TwoByteOpCodes ==
    {6, 14, 22, 30, 38, 46, 54, 62, 198, 206, 211, 214, 219, 222, 230, 238,
     246, 254}

\* the mutant of op_code_to_argsize: JMP (0xC3) is taken for a two-byte
\* instruction
op_code_to_argsize_short_jmp(op_code) ==
    IF op_code \in ThreeByteOpCodes \ {195} THEN 3
    ELSE IF op_code \in TwoByteOpCodes \cup {195} THEN 2
    ELSE 1

\* the mutant of op_code_to_argsize: 0xCB is taken for the three-byte JMP it
\* is an alternative encoding of on the 8080
op_code_to_argsize_alt_jmp(op_code) ==
    IF op_code \in ThreeByteOpCodes \cup {203} THEN 3
    ELSE IF op_code \in TwoByteOpCodes THEN 2
    ELSE 1

\* op_code_to_argsize: every other opcode, the `_x` arm included, maps to 1
op_code_to_argsize(op_code) ==
    IF op_code \in ThreeByteOpCodes THEN 3
    ELSE IF op_code \in TwoByteOpCodes THEN 2
    ELSE 1

\* data.get(k): the bytes are data[0] .. data[n-1]
InData(data, k) == k \in DOMAIN data

\* the arms of the match of read_at on the instruction size
read_args(data, pc, op_code, instruction_size) ==
    IF instruction_size = 1
    THEN [st |-> "Ok", instr |-> no_arg_op_code(op_code), err |-> <<>>]
    ELSE IF instruction_size = 2
    THEN IF ~InData(data, pc + 1)
         THEN [st |-> "EndOfDataParam", instr |-> I0("Nop"), err |-> <<op_code>>]
         ELSE [st |-> "Ok", instr |-> one_arg_op_code(op_code, data[pc + 1]),
               err |-> <<>>]
    ELSE IF instruction_size = 3
    THEN IF ~InData(data, pc + 1) \/ ~InData(data, pc + 2)
         THEN [st |-> "EndOfDataParam", instr |-> I0("Nop"), err |-> <<op_code>>]
         ELSE [st |-> "Ok",
               instr |-> two_arg_op_code(op_code, data[pc + 1], data[pc + 2]),
               err |-> <<>>]
    ELSE [st |-> "WrongInstruction", instr |-> I0("Nop"), err |-> <<op_code>>]

\* a panic! inside the arm ends the call
read_end(r) == IF r.instr = Panicked THEN [r EXCEPT !.st = "Panic"] ELSE r

\* Instruction::read_at(data, pc): [st, instr, err]
read_at(data, pc) ==
    IF ~InData(data, pc)
    THEN [st |-> "EndOfDataInstr", instr |-> I0("Nop"), err |-> <<>>]
    ELSE read_end(read_args(data, pc, data[pc], op_code_to_argsize(data[pc])))

\* System::next_instruction
next_instruction(m) == read_at(m.ram.ram, m.cpu.pc)

(***************************************************************************)
(* The host: calls on the API, one action per call                         *)
(***************************************************************************)
Builds == {"debug", "release"}

Snapshot == [cpu |-> cpu, ram |-> ram, io |-> io]

Machine == [cpu |-> cpu, ram |-> ram, io |-> io, st |-> "Ok"]

\* what `last` holds: the call, its instruction or arguments, and its result:
\* st "Ok" | an error | "Panic", v the value of an Ok, err the fields of an Err
CallRec(op, i, arg, st, v, err) ==
    [op |-> op, instr |-> i, arg |-> arg, st |-> st, v |-> v, err |-> err]

NoCall == CallRec("new", I0("Nop"), <<>>, "Ok", 0, <<>>)

\* no front-end: the calls are made on the System directly
NoHost == [kind |-> "none"]

\* the host has called system.execute(i, io) or system.process(i, io) and r
\* is what the call made of the machine and returned
DoCall(op, i, r) ==
    /\ cpu' = r.m.cpu
    /\ ram' = r.m.ram
    /\ io' = r.m.io
    /\ last' = CallRec(op, i, <<>>, r.m.st, r.v, <<>>)
    /\ prev' = Snapshot
    /\ steps' = steps + 1
    /\ UNCHANGED <<build, start>>

\* the host has written through system.get_mut(reg) and mm is the machine
\* after `*system.get_mut(reg)? = value`
DoSet(reg, value, mm) ==
    /\ cpu' = mm.cpu
    /\ ram' = mm.ram
    /\ last' = CallRec("set", I0("Nop"), <<reg, value>>, mm.st, 0, <<>>)
    /\ prev' = Snapshot
    /\ steps' = steps + 1
    /\ UNCHANGED <<build, start, io>>

(***************************************************************************)
(* Inputs                                                                  *)
(***************************************************************************)
\* the registers an opcode can name
Regs8 == {A, B, C, D, E, H, L, M}

ByteSamples == {0, 255}

\* inside the buffer, past its end, the last address
AddrSamples == {6, 256, 65535}

\* the byte io.read answers
InBytes == {90}

NoArgOps == {"Nop", "Cma", "Ret", "Xchg", "Xthl", "Rrc", "Stc", "Cmc", "Daa", "Rar",
             "Ral", "Ei", "Di", "Pchl", "Hlt", "Rlc", "Sphl", "Rz", "Rm", "Rp",
             "Rnz", "Rpe", "Rpo", "Rc", "Rnc"}

RegOps == {"Add", "Adc", "Sub", "Sbb", "Ana", "Xra", "Ora", "Cmp", "Inr", "Dcr"}

\* every instruction the decoder can produce, its operands sampled
Instrs ==
    {I0(op) : op \in NoArgOps}
    \cup {IReg(op, r) : op \in RegOps, r \in Regs8}
    \cup {IMov(dst, src) : dst \in Regs8, src \in Regs8}
    \cup {IMvi(dst, b) : dst \in Regs8, b \in ByteSamples}
    \cup {IPair(op, rp) : op \in {"Push", "Pop"}, rp \in {"PSW", "B", "D", "H"}}
    \cup {IPair(op, rp) : op \in {"Inx", "Dcx", "Dad"}, rp \in {"B", "D", "H", "SP"}}
    \cup {IPair(op, rp) : op \in {"Ldax", "Stax"}, rp \in {"B", "D"}}
    \cup {ILxi(rp, 4, 0) : rp \in {"B", "D", "H", "SP"}}
    \cup {IByte(op, b) : op \in (OpsByte \ {"Mvi"}), b \in ByteSamples}
    \cup {IAddr(op, addr) : op \in (OpsAddr \ {"Lxi"}), addr \in AddrSamples}
    \cup {IByte("Rst", n) : n \in 0..7}

\* the bytes of the buffer when a run starts: any byte can be stored anywhere
\* (STA), so any content is one the program can hold
RamImage(n) == [ram |-> [x \in 0..(n - 1) |-> (x * 37 + 11) % 256],
                rom_ranges |-> <<>>]

\* the registers when a run starts: any value can be loaded (MVI, POP PSW)
RegImage(f, h, l) ==
    [i \in 0..7 |-> CASE i = A -> 60 [] i = F -> f [] i = B -> 0 [] i = C -> 5
                      [] i = D -> 0 [] i = E -> 7 [] i = H -> h [] OTHER -> l]

\* one flag at a time, none, all five
FlagSamples == {0, 1, 4, 64, 128, 213}

\* (H, L): an address inside the buffer, one outside
HlSamples == {<<0, 2>>, <<255, 255>>}

\* inside the buffer, at its two ends of the address space, the constructor's
SpSamples == {4, 0, 1, 61440, 65535}

PcSamples == {258, 65533, 65535}

(***************************************************************************)
(* Spec: one call of execute or process on a machine in a sampled state    *)
(***************************************************************************)
Init ==
    /\ build \in Builds
    /\ \E f \in FlagSamples, r \in HlSamples, sp \in SpSamples, pc \in PcSamples,
          inte \in BOOLEAN :
          cpu = [registers |-> RegImage(f, r[1], r[2]), sp |-> sp, pc |-> pc,
                 inte |-> inte]
    /\ ram = RamImage(RamSize)
    /\ io = <<>>
    /\ last = NoCall
    /\ prev = Snapshot
    /\ start = Snapshot
    /\ host = NoHost
    /\ todo = <<>>
    /\ steps = 0

Execute ==
    /\ steps = 0
    /\ \E i \in Instrs, inb \in InBytes :
          DoCall("execute", i, execute(Machine, i, inb))
    /\ UNCHANGED <<todo, host>>

Process ==
    /\ steps = 0
    /\ \E i \in Instrs, inb \in InBytes :
          DoCall("process", i, process(Machine, i, inb))
    /\ UNCHANGED <<todo, host>>

Next == Execute \/ Process

Spec == Init /\ [][Next]_vars

(***************************************************************************)
(* SpecRom: a host that builds a Ram, registers ROM images and reads and   *)
(* writes bytes through Ram::get and Ram::get_mut                          *)
(***************************************************************************)
InitRom ==
    /\ build \in Builds
    /\ cpu = cpu_new(0)
    /\ ram = ram_new(RomRamSize)
    /\ io = <<>>
    /\ last = NoCall
    /\ prev = Snapshot
    /\ start = Snapshot
    /\ host = NoHost
    /\ todo = <<>>
    /\ steps = 0

\* the host has made a call on the Ram: r the Ram after it.  It registers
\* its ROM images first and then makes one access.
DoRam(op, arg, r, st, v, err) ==
    /\ last.op \notin {"write", "read"}
    /\ ram' = r
    /\ last' = CallRec(op, I0("Nop"), arg, st, v, err)
    /\ prev' = Snapshot
    /\ UNCHANGED <<cpu, build, io, todo, start, host>>

\* ram.register_rom(&[0xAA; len], offset)
RegisterRom ==
    /\ steps < MaxRomCalls
    /\ steps' = steps + 1
    /\ \E len \in 0..MaxRomLen, offset \in 0..RomRamSize :
           \E r \in {register_rom(ram, [k \in 1..len |-> 170], offset)} :
               DoRam("register_rom", <<offset, len>>, r.ram, r.st, 0, r.err)

\* *ram.get_mut(addr)? = 0x55
RamWrite ==
    /\ UNCHANGED steps
    /\ \E addr \in 0..RomRamSize :
           DoRam("write", <<addr>>, ram_store(ram, addr, 85),
                 ram_get_mut(ram, addr), 0, <<>>)

\* ram.get(addr)
RamRead ==
    /\ UNCHANGED steps
    /\ \E addr \in 0..RomRamSize :
           DoRam("read", <<addr>>, ram, ram_get(ram, addr).st,
                 ram_get(ram, addr).v, <<>>)

NextRom == RegisterRom \/ RamWrite \/ RamRead

SpecRom == InitRom /\ [][NextRom]_vars

(***************************************************************************)
(* SpecTrip: a host that makes a fixed sequence of calls and stops at the  *)
(* first one that fails                                                    *)
(***************************************************************************)
\* one call of the sequence: system.execute(i, io), or a write of `value`
\* through system.get_mut(reg)
HostExecute(i) == [k |-> "execute", i |-> i, reg |-> A, value |-> 0]

HostSet(reg, value) == [k |-> "set", i |-> I0("Nop"), reg |-> reg, value |-> value]

\* the two registers of a pair, high then low, as the host names them
PairRegs(rp) ==
    CASE rp = "PSW" -> <<A, F>>
      [] rp = "B" -> <<B, C>>
      [] rp = "D" -> <<D, E>>
      [] OTHER -> <<H, L>>

\* CALL addr; RET; NOP
CallTrip(addr) ==
    <<HostExecute(IAddr("Call", addr)), HostExecute(I0("Ret")),
      HostExecute(I0("Nop"))>>

\* PUSH rp; rp <- 0; POP rp
PushTrip(rp) ==
    <<HostExecute(IPair("Push", rp)), HostSet(PairRegs(rp)[1], 0),
      HostSet(PairRegs(rp)[2], 0), HostExecute(IPair("Pop", rp))>>

\* RLC; RRC
RotateTrip == <<HostExecute(I0("Rlc")), HostExecute(I0("Rrc"))>>

Trips ==
    {CallTrip(addr) : addr \in AddrSamples}
    \cup {PushTrip(rp) : rp \in {"PSW", "B", "D", "H"}}
    \cup {RotateTrip}

\* the value every pair holds when the run starts, high and low byte
PairHighSamples == {0, 18, 255}
PairLowSamples == {0, 52, 255}

\* the stack pointer when the run starts: inside the buffer, at its end,
\* too low for two bytes, the constructor's
TripSpSamples == {4, 2, RamSize, 1, 61440}

InitTrip ==
    /\ build \in Builds
    /\ \E hb \in PairHighSamples, lb \in PairLowSamples, sp \in TripSpSamples,
          pc \in PcSamples \cup {0} :
          cpu = [registers |-> [i \in 0..7 |-> IF i \in {A, B, D, H} THEN hb ELSE lb],
                 sp |-> sp, pc |-> pc, inte |-> FALSE]
    /\ ram = RamImage(RamSize)
    /\ io = <<>>
    /\ last = NoCall
    /\ prev = Snapshot
    /\ start = Snapshot
    /\ host = NoHost
    /\ todo \in Trips
    /\ steps = 0

\* the host goes on: calls remain and none has failed or panicked
Going == todo # <<>> /\ last.st = "Ok"

TripExecute ==
    /\ Going
    /\ Head(todo).k = "execute"
    /\ \E inb \in InBytes :
           DoCall("execute", Head(todo).i, execute(Machine, Head(todo).i, inb))
    /\ todo' = Tail(todo)
    /\ UNCHANGED host

TripSet ==
    /\ Going
    /\ Head(todo).k = "set"
    /\ DoSet(Head(todo).reg, Head(todo).value,
             sys_put(Machine, Head(todo).reg, Head(todo).value))
    /\ todo' = Tail(todo)
    /\ UNCHANGED host

NextTrip == TripExecute \/ TripSet

SpecTrip == InitTrip /\ [][NextTrip]_vars

(***************************************************************************)
(* SpecSub: SUB B or SUI d8 executed once, for every A and every operand   *)
(***************************************************************************)
\* a machine as System::new leaves it but for A, F, B and the pair H, L,
\* which point at byte 2 of the buffer
AluCpu(av, fv, bv) ==
    [registers |-> [i \in 0..7 |-> CASE i = A -> av [] i = F -> fv [] i = B -> bv
                                     [] i = L -> 2 [] OTHER -> 0],
     sp |-> 61440, pc |-> 0, inte |-> FALSE]

InitSub ==
    /\ build \in Builds
    /\ \E av \in Byte, bv \in Byte, fv \in {0, 1} : cpu = AluCpu(av, fv, bv)
    /\ ram = RamImage(RamSize)
    /\ io = <<>>
    /\ last = NoCall
    /\ prev = Snapshot
    /\ start = Snapshot
    /\ host = NoHost
    /\ todo = <<>>
    /\ steps = 0

\* SUB B
SubReg ==
    /\ steps = 0
    /\ DoCall("execute", IReg("Sub", B), execute(Machine, IReg("Sub", B), 0))
    /\ UNCHANGED <<todo, host>>

\* SUI d8, d8 the byte B holds
SubImm ==
    /\ steps = 0
    /\ DoCall("execute", IByte("Sui", cpu.registers[B]),
              execute(Machine, IByte("Sui", cpu.registers[B]), 0))
    /\ UNCHANGED <<todo, host>>

NextSub == SubReg \/ SubImm

SpecSub == InitSub /\ [][NextSub]_vars

(***************************************************************************)
(* SpecAdd: ADD r or ADI d8 executed once, for every A and every operand   *)
(***************************************************************************)
\* the operand is in B, in the byte at HL and in the immediate byte
InitAdd ==
    /\ build \in Builds
    /\ \E av \in Byte, bv \in Byte, fv \in {0, 1} :
          /\ cpu = AluCpu(av, fv, bv)
          /\ ram = [RamImage(RamSize) EXCEPT !.ram[2] = bv]
    /\ io = <<>>
    /\ last = NoCall
    /\ prev = Snapshot
    /\ start = Snapshot
    /\ host = NoHost
    /\ todo = <<>>
    /\ steps = 0

\* ADD B, ADD M, ADD A
AddReg ==
    /\ steps = 0
    /\ \E r \in {A, B, M} :
          DoCall("execute", IReg("Add", r), execute(Machine, IReg("Add", r), 0))
    /\ UNCHANGED <<todo, host>>

\* ADI d8, d8 the byte B holds
AddImm ==
    /\ steps = 0
    /\ DoCall("execute", IByte("Adi", cpu.registers[B]),
              execute(Machine, IByte("Adi", cpu.registers[B]), 0))
    /\ UNCHANGED <<todo, host>>

NextAdd == AddReg \/ AddImm

SpecAdd == InitAdd /\ [][NextAdd]_vars

(***************************************************************************)
(* SpecAlu: one instruction that works on A, for every A                   *)
(***************************************************************************)
\* the operand in B and in the immediate byte
OperandSamples == {1, 255}

\* no flag, CY, AC, and S, Z and P together
AluFlagSamples == {0, 1, 16, 196}

AluInstrs ==
    {IReg(op, r) : op \in RegOps, r \in {A, B, M}}
    \cup {IByte(op, b) : op \in {"Adi", "Aci", "Sui", "Sbi", "Ani", "Ori", "Xri", "Cpi"},
                         b \in OperandSamples}
    \cup {I0("Daa"), I0("Ral"), I0("Rlc")}

InitAlu ==
    /\ build \in Builds
    /\ \E av \in Byte, fv \in AluFlagSamples, bv \in OperandSamples :
          cpu = AluCpu(av, fv, bv)
    /\ ram = RamImage(RamSize)
    /\ io = <<>>
    /\ last = NoCall
    /\ prev = Snapshot
    /\ start = Snapshot
    /\ host = NoHost
    /\ todo = <<>>
    /\ steps = 0

AluExecute ==
    /\ steps = 0
    /\ \E i \in AluInstrs : DoCall("execute", i, execute(Machine, i, 0))
    /\ UNCHANGED <<todo, host>>

AluProcess ==
    /\ steps = 0
    /\ \E i \in AluInstrs : DoCall("process", i, process(Machine, i, 0))
    /\ UNCHANGED <<todo, host>>

NextAlu == AluExecute \/ AluProcess

SpecAlu == InitAlu /\ [][NextAlu]_vars

(***************************************************************************)
(* SpecStore: a host that registers one ROM image, builds the System and   *)
(* executes storing instructions                                           *)
(***************************************************************************)
\* the bytes of the ROM image
StoreRom == <<170, 170, 170>>

\* where the image is registered: under the address in HL and the bytes a
\* push reaches, or under the address in BC
StoreOffsets == {0, 3}

\* operands of STA, SHLD and CALL: inside the first image, inside the second,
\* outside the buffer
StoreAddrSamples == {1, 4, 256}

\* the stack pointer: the bytes below it in the buffer, the only byte of the
\* buffer below it, the constructor's
StoreSpSamples == {4, 1, 61440}

\* the instructions that store to memory
StoreInstrs ==
    {IAddr(op, addr) : op \in {"Sta", "Shld", "Call"}, addr \in StoreAddrSamples}
    \cup {IPair("Stax", rp) : rp \in {"B", "D"}}
    \cup {IMov(M, r) : r \in {A, B}}
    \cup {IMvi(M, 85), IReg("Inr", M), IReg("Dcr", M), IByte("Rst", 1), I0("Xthl")}
    \cup {IPair("Push", rp) : rp \in {"PSW", "B", "D", "H"}}

InitStore ==
    /\ build \in Builds
    /\ \E r \in HlSamples, sp \in StoreSpSamples :
          cpu = [registers |-> RegImage(0, r[1], r[2]), sp |-> sp, pc |-> 258,
                 inte |-> FALSE]
    /\ \E offset \in StoreOffsets :
          ram = register_rom(ram_new(RamSize), StoreRom, offset).ram
    /\ io = <<>>
    /\ last = NoCall
    /\ prev = Snapshot
    /\ start = Snapshot
    /\ host = NoHost
    /\ todo = <<>>
    /\ steps = 0

StoreExecute ==
    /\ steps < MaxStoreSteps
    /\ \E i \in StoreInstrs, inb \in InBytes :
          DoCall("execute", i, execute(Machine, i, inb))
    /\ UNCHANGED <<todo, host>>

NextStore == StoreExecute

SpecStore == InitStore /\ [][NextStore]_vars

(***************************************************************************)
(* SpecLatch: a host that builds the System and makes a few calls of       *)
(* execute and process                                                     *)
(***************************************************************************)
\* EI and DI, instructions that succeed, instructions that fail (HLT and RLC
\* have no arm in execute, STA outside the buffer, RST while SP is outside
\* the buffer), and LXI SP that brings the stack into the buffer
LatchInstrs ==
    {I0("Ei"), I0("Di"), I0("Nop"), I0("Hlt"), I0("Rlc"), IByte("Rst", 1),
     IByte("Rst", 2), ILxi("SP", 4, 0), IAddr("Sta", 256)}

InitLatch ==
    /\ build \in Builds
    /\ \E pc \in {0, 256} : cpu = cpu_new(pc)
    /\ ram = ram_new(RamSize)
    /\ io = <<>>
    /\ last = NoCall
    /\ prev = Snapshot
    /\ start = Snapshot
    /\ host = NoHost
    /\ todo = <<>>
    /\ steps = 0

LatchExecute ==
    /\ steps < MaxLatchSteps
    /\ \E i \in LatchInstrs, inb \in InBytes :
          DoCall("execute", i, execute(Machine, i, inb))
    /\ UNCHANGED <<todo, host>>

LatchProcess ==
    /\ steps < MaxLatchSteps
    /\ \E i \in LatchInstrs, inb \in InBytes :
          DoCall("process", i, process(Machine, i, inb))
    /\ UNCHANGED <<todo, host>>

NextLatch == LatchExecute \/ LatchProcess

SpecLatch == InitLatch /\ [][NextLatch]_vars

(***************************************************************************)
(* SpecDecode: a host that builds the System on a short buffer, fetches    *)
(* the instruction at the PC and executes it                               *)
(***************************************************************************)
\* the bytes after the first one: a one-byte opcode (STAX D), a two-byte
\* one (MVI A) and a three-byte one (JMP)
ArgSamples == {18, 62, 195}

\* inside the buffer, at its end, far beyond it
DecodePcSamples == 0..DecodeLen \cup {65535}

InitDecode ==
    /\ build \in Builds
    /\ \E pc \in DecodePcSamples : cpu = cpu_new(pc)
    /\ \E n \in 0..DecodeLen, first \in Byte, rest \in [1..DecodeLen -> ArgSamples] :
          ram = [ram |-> [x \in 0..(n - 1) |-> IF x = 0 THEN first ELSE rest[x]],
                 rom_ranges |-> <<>>]
    /\ io = <<>>
    /\ last = NoCall
    /\ prev = Snapshot
    /\ start = Snapshot
    /\ host = NoHost
    /\ todo = <<>>
    /\ steps = 0

\* system.next_instruction()
Fetch ==
    /\ steps = 0
    /\ \E r \in {next_instruction(Machine)} :
          last' = CallRec("next_instruction", r.instr, <<>>, r.st, 0, r.err)
    /\ prev' = Snapshot
    /\ steps' = steps + 1
    /\ UNCHANGED <<cpu, ram, build, io, todo, start, host>>

\* system.execute(instruction, io) on the instruction just fetched
DecodeExecute ==
    /\ steps = 1
    /\ last.op = "next_instruction"
    /\ last.st = "Ok"
    /\ \E inb \in InBytes :
          DoCall("execute", last.instr, execute(Machine, last.instr, inb))
    /\ UNCHANGED <<todo, host>>

NextDecode == Fetch \/ DecodeExecute

SpecDecode == InitDecode /\ [][NextDecode]_vars

(***************************************************************************)
(* Properties of the Ram (SpecRom)                                         *)
(***************************************************************************)
\* the ranges recorded when the last call was made
RangesBefore == prev.ram.rom_ranges

\* address x lies in the k-th range recorded when the last call was made
InRange(x, k) ==
    RangesBefore[k][1] <= x /\ x < RangesBefore[k][1] + RangesBefore[k][2]

InSomeRange(x) == \E k \in 1..Len(RangesBefore) : InRange(x, k)

\* C1: on a memory of size N with registered ROM ranges, a write to address
\* x succeeds iff x < N and x lies in no ROM range; it fails with
\* ReadOnlyWrite when x lies in a range, first and last byte included, and
\* with the out-of-bounds error when x >= N; a read of any address < N
\* succeeds.
C1_RomIsReadOnly ==
    /\ last.op = "write" =>
           /\ (last.st = "Ok") <=>
                  (last.arg[1] < ram_len(prev.ram) /\ ~InSomeRange(last.arg[1]))
           /\ InSomeRange(last.arg[1]) => last.st = "ReadOnlyWrite"
           /\ last.arg[1] >= ram_len(prev.ram) => last.st = "OutOfBoundRead"
    /\ (last.op = "read" /\ last.arg[1] < ram_len(prev.ram)) => last.st = "Ok"

\* the last call was register_rom with a range of at least one byte, made
\* when every recorded range had at least one byte
RegisteredNonEmpty ==
    /\ last.op = "register_rom"
    /\ last.arg[2] >= 1
    /\ \A k \in 1..Len(RangesBefore) : RangesBefore[k][2] >= 1

\* the new range and the k-th recorded one overlap: one of them starts
\* inside the other
Overlapping(k) ==
    \/ InRange(last.arg[1], k)
    \/ /\ last.arg[1] <= RangesBefore[k][1]
       /\ RangesBefore[k][1] < last.arg[1] + last.arg[2]

OverlappedRanges == {k \in 1..Len(RangesBefore) : Overlapping(k)}

FirstOverlapped == CHOOSE k \in OverlappedRanges : \A j \in OverlappedRanges : k <= j

\* what C5 says the call returns when the new range overlaps a recorded one
RejectedAsOverlapping ==
    /\ last.st = "OverlappingRomSections"
    /\ last.err = <<RangesBefore[FirstOverlapped][1], RangesBefore[FirstOverlapped][2],
                    last.arg[1], last.arg[2]>>
    /\ ram = prev.ram

Returned(op) == last.op = op /\ last.st = "Ok"

\* flag `bit` of the F register as it was before the call
FlagBefore(bit) == (prev.cpu.registers[F] \div (2 ^ bit)) % 2 = 1

\* the byte at addr after the call
ByteAt(addr) == ram.ram[addr]

\* C2: with INTE set and PC = p, process(Rst(n)) pushes p itself, high byte
\* at SP-1 and low byte at SP-2, decrements SP by 2 and sets PC = 8*n.
C2_RstPushesPc ==
    (Returned("process") /\ last.instr.op = "Rst" /\ prev.cpu.inte) =>
        /\ ByteAt(prev.cpu.sp - 1) = prev.cpu.pc \div 256
        /\ ByteAt(prev.cpu.sp - 2) = prev.cpu.pc % 256
        /\ cpu.sp = prev.cpu.sp - 2
        /\ cpu.pc = 8 * last.instr.b

\* C3: with INTE clear, process(instr) returns 0 cycles and changes nothing:
\* PC, SP, the registers and flags, INTE and the memory are as before, and
\* no I/O call is made.
C3_ProcessGatedByInte ==
    (last.op = "process" /\ ~prev.cpu.inte) =>
        /\ last.st = "Ok"
        /\ last.v = 0
        /\ cpu = prev.cpu
        /\ ram = prev.ram
        /\ io = prev.io

\* process was called with INTE clear and an instruction that writes memory,
\* moves SP and PC when executed
C3_Witness ==
    /\ last.op = "process"
    /\ ~prev.cpu.inte
    /\ last.instr.op = "Rst"
    /\ prev.cpu.sp = 4

\* C4: execute(Hlt) returns an outcome that is not an error and leaves PC,
\* SP, the registers, the flags and the memory unchanged.
C4_HltIsNotAnError ==
    (last.op = "execute" /\ last.instr.op = "Hlt") =>
        /\ last.st = "Ok"
        /\ cpu = prev.cpu
        /\ ram = prev.ram

\* the predicate of a conditional jump, call or return, read off the flags
\* before the call
Taken(op) ==
    CASE op \in {"Jz", "Cz", "Rz"} -> FlagBefore(Flag_Z)
      [] op \in {"Jnz", "Cnz", "Rnz"} -> ~FlagBefore(Flag_Z)
      [] op \in {"Jc", "Cc", "Rc"} -> FlagBefore(Flag_Cy)
      [] op \in {"Jnc", "Cnc", "Rnc"} -> ~FlagBefore(Flag_Cy)
      [] op \in {"Jpe", "Cpe", "Rpe"} -> FlagBefore(Flag_P)
      [] op \in {"Jpo", "Cpo", "Rpo"} -> ~FlagBefore(Flag_P)
      [] op \in {"Jm", "Cm", "Rm"} -> FlagBefore(Flag_S)
      [] op \in {"Jp", "Cp", "Rp"} -> ~FlagBefore(Flag_S)
      [] OTHER -> TRUE

ConditionalOps ==
    {"Jz", "Jnz", "Jc", "Jnc", "Jpe", "Jpo", "Jm", "Jp",
     "Cz", "Cnz", "Cc", "Cnc", "Cpe", "Cpo", "Cm", "Cp",
     "Rz", "Rnz", "Rc", "Rnc", "Rpe", "Rpo", "Rm", "Rp"}

\* the word on top of the stack before the call
TopOfStackBefore ==
    prev.ram.ram[prev.cpu.sp] + 256 * prev.ram.ram[(prev.cpu.sp + 1) % 65536]

\* the PC that C8 gives for the instruction just executed
ExpectedPc ==
    CASE last.instr.op \in ConditionalOps /\ ~Taken(last.instr.op) ->
             (prev.cpu.pc + size(last.instr)) % 65536
      [] last.instr.op \in {"Jmp", "Call", "Jz", "Jnz", "Jc", "Jnc", "Jpe", "Jpo",
                            "Jm", "Jp", "Cz", "Cnz", "Cc", "Cnc", "Cpe", "Cpo",
                            "Cm", "Cp"} -> last.instr.addr
      [] last.instr.op = "Rst" -> 8 * last.instr.b
      [] last.instr.op = "Pchl" ->
             prev.cpu.registers[H] * 256 + prev.cpu.registers[L]
      [] last.instr.op \in {"Ret", "Rz", "Rnz", "Rc", "Rnc", "Rpe", "Rpo", "Rm",
                            "Rp"} -> TopOfStackBefore
      [] OTHER -> (prev.cpu.pc + size(last.instr)) % 65536

\* C8: after execute(instr) succeeds from PC = p the PC is p + size(instr)
\* (in 16 bits) for a non-control instruction and for a conditional whose
\* predicate is false, which also leaves SP and the memory alone; addr for
\* JMP, CALL and a taken Jcc or Ccc; 8*n for RST n; HL for PCHL; the word
\* popped for RET and a taken Rcc.  Z/NZ test Z, C/NC test CY, PE/PO test P,
\* M/P test S.
C8_NextPc ==
    Returned("execute") =>
        /\ cpu.pc = ExpectedPc
        /\ (last.instr.op \in ConditionalOps /\ ~Taken(last.instr.op)) =>
               (cpu.sp = prev.cpu.sp /\ ram = prev.ram)

\* a conditional return was taken and succeeded
C8_Witness ==
    /\ Returned("execute")
    /\ last.instr.op = "Rpe"
    /\ FlagBefore(Flag_P)
    /\ cpu.sp = prev.cpu.sp + 2

(***************************************************************************)
(* Properties of the round trips (SpecTrip)                                *)
(***************************************************************************)
\* the address of the instruction after a CALL at the PC the run started at
AfterCall == (start.cpu.pc + 3) % 65536

\* C6: CALL addr at PC = p with valid stack memory pushes p+3, high byte at
\* SP-1 and low byte at SP-2, sets SP to SP-2 and PC to addr; the RET that
\* follows sets PC = p+3 and SP to its value before the CALL; after the NOP
\* at p+3 the PC is p+4 and SP is still the initial SP.
C6_CallRetRoundTrip ==
    /\ (steps = 1 /\ Returned("execute") /\ last.instr.op = "Call") =>
           /\ ByteAt(start.cpu.sp - 1) = AfterCall \div 256
           /\ ByteAt(start.cpu.sp - 2) = AfterCall % 256
           /\ cpu.sp = start.cpu.sp - 2
           /\ cpu.pc = last.instr.addr
    /\ (steps = 2 /\ Returned("execute") /\ last.instr.op = "Ret") =>
           /\ cpu.pc = AfterCall
           /\ cpu.sp = start.cpu.sp
    /\ (steps = 3 /\ Returned("execute") /\ last.instr.op = "Nop") =>
           /\ cpu.pc = (AfterCall + 1) % 65536
           /\ cpu.sp = start.cpu.sp

\* CALL, RET and NOP have all succeeded, from a PC whose two bytes differ
C6_Witness ==
    /\ steps = 3
    /\ Returned("execute")
    /\ last.instr.op = "Nop"
    /\ start.cpu.pc = 258

\* C7: for rp in {B, D, H, PSW} holding v, with SP pointing into writable
\* memory, PUSH rp, rp <- 0, POP rp leaves rp = v and SP at its value before
\* the PUSH; for PSW the pair is (A, F) and all 8 bits of F come back.
C7_PushPopRoundTrip ==
    (steps = 4 /\ Returned("execute") /\ last.instr.op = "Pop") =>
        /\ cpu.registers[PairRegs(last.instr.rp)[1]]
               = start.cpu.registers[PairRegs(last.instr.rp)[1]]
        /\ cpu.registers[PairRegs(last.instr.rp)[2]]
               = start.cpu.registers[PairRegs(last.instr.rp)[2]]
        /\ cpu.sp = start.cpu.sp

\* PSW = (18, 255) has been pushed, zeroed and popped
C7_Witness ==
    /\ steps = 4
    /\ Returned("execute")
    /\ last.instr.op = "Pop"
    /\ last.instr.rp = "PSW"
    /\ start.cpu.registers[A] = 18
    /\ start.cpu.registers[F] = 255
    /\ prev.cpu.registers[A] = 0
    /\ prev.cpu.registers[F] = 0

(***************************************************************************)
(* Properties of the arithmetic (SpecSub, SpecAlu)                         *)
(***************************************************************************)
\* flag `bit` of the F register after the call
FlagAfter(bit) == (cpu.registers[F] \div (2 ^ bit)) % 2 = 1

\* the byte register r, or the memory at HL for M, held before and after
ValueBefore(r) ==
    IF r = M THEN prev.ram.ram[prev.cpu.registers[H] * 256 + prev.cpu.registers[L]]
    ELSE prev.cpu.registers[r]

ValueAfter(r) ==
    IF r = M THEN ram.ram[cpu.registers[H] * 256 + cpu.registers[L]]
    ELSE cpu.registers[r]

\* the second operand of the instruction just executed
Operand ==
    IF last.instr.op \in {"Sui", "Cpi", "Adi", "Aci", "Sbi", "Ani", "Ori", "Xri"}
    THEN last.instr.b
    ELSE ValueBefore(last.instr.r)

\* C10: SUB r and SUI d8, whatever CY was: A becomes (a - b) mod 256 and CY
\* is set iff a < b.
C10_SubBorrow ==
    (Returned("execute") /\ last.instr.op \in {"Sub", "Sui"}) =>
        /\ cpu.registers[A] = (prev.cpu.registers[A] - Operand + 256) % 256
        /\ FlagAfter(Flag_Cy) <=> (prev.cpu.registers[A] < Operand)

\* 12 - 15 has been computed: A = 0xFD and CY set
C10_Witness ==
    /\ Returned("execute")
    /\ last.instr.op = "Sui"
    /\ prev.cpu.registers[A] = 12
    /\ last.instr.b = 15
    /\ cpu.registers[A] = 253
    /\ FlagAfter(Flag_Cy)

\* the instructions that update S, Z and P
SzpOps ==
    {"Add", "Adi", "Adc", "Aci", "Sub", "Sui", "Sbb", "Sbi", "Cmp", "Cpi", "Inr",
     "Dcr", "Ana", "Ani", "Ora", "Ori", "Xra", "Xri", "Daa"}

\* the 8-bit result of the instruction just executed: the discarded
\* difference for CMP and CPI, the new value of the operand for INR and DCR,
\* the final A otherwise
ResultByte ==
    CASE last.instr.op \in {"Cmp", "Cpi"} ->
             (prev.cpu.registers[A] - Operand + 256) % 256
      [] last.instr.op \in {"Inr", "Dcr"} -> ValueAfter(last.instr.r)
      [] OTHER -> cpu.registers[A]

OnesOf(byte) == Cardinality({k \in 0..7 : (byte \div (2 ^ k)) % 2 = 1})

\* C9: after every instruction that updates S, Z and P, DAA included,
\* Z = (result = 0), S = bit 7 of the result, P = the result has an even
\* number of 1 bits.
C9_FlagsFollowResult ==
    (Returned("execute") /\ last.instr.op \in SzpOps) =>
        /\ FlagAfter(Flag_Z) <=> (ResultByte = 0)
        /\ FlagAfter(Flag_S) <=> (ResultByte >= 128)
        /\ FlagAfter(Flag_P) <=> (OnesOf(ResultByte) % 2 = 0)

\* A after the first step of DAA as C11 gives it
DaaStep1 ==
    IF prev.cpu.registers[A] % 16 > 9 \/ FlagBefore(Flag_Ac)
    THEN prev.cpu.registers[A] + 6
    ELSE prev.cpu.registers[A]

\* C11: DAA, for every A, CY and AC: if (A & 0x0F) > 9 or AC is set, 0x06 is
\* added to A; then, whether or not the first step added, if the upper
\* nibble of the resulting A is > 9 or CY is set (on entry, or by the first
\* addition), 0x60 is added to A, modulo 256.
C11_DaaAdjustsBothNibbles ==
    (Returned("execute") /\ last.instr.op = "Daa") =>
        cpu.registers[A] =
            IF (DaaStep1 % 256) \div 16 > 9 \/ FlagBefore(Flag_Cy) \/ DaaStep1 > 255
            THEN (DaaStep1 + 96) % 256
            ELSE DaaStep1 % 256

\* the machine the last call was made on
MachineBefore == [cpu |-> prev.cpu, ram |-> prev.ram, io |-> prev.io, st |-> "Ok"]

\* the F register SUB r or SUI d8 leaves when run on that machine with the
\* operand of the CMP r or CPI d8 just executed
FlagsOfSub ==
    IF last.instr.op = "Cmp" THEN sub(MachineBefore, last.instr.r).cpu.registers[F]
    ELSE sui(MachineBefore, last.instr.b).cpu.registers[F]

\* C12: CMP r and CPI d8 leave A, every other register, SP and the memory
\* unchanged and leave S, Z, AC, P and CY as SUB r and SUI d8 leave them
\* from the same state with the same operand, M included.
C12_CompareIsSubtractWithoutStore ==
    (Returned("execute") /\ last.instr.op \in {"Cmp", "Cpi"}) =>
        /\ \A r \in 0..7 : r # F => cpu.registers[r] = prev.cpu.registers[r]
        /\ cpu.sp = prev.cpu.sp
        /\ ram = prev.ram
        /\ \A bit \in {Flag_S, Flag_Z, Flag_Ac, Flag_P, Flag_Cy} :
               FlagAfter(bit) <=> ((FlagsOfSub \div (2 ^ bit)) % 2 = 1)

\* CMP M has been executed with A below the byte at HL: a borrow
C12_Witness ==
    /\ Returned("execute")
    /\ last.instr.op = "Cmp"
    /\ last.instr.r = M
    /\ prev.cpu.registers[A] = 18
    /\ FlagAfter(Flag_Cy)
    /\ cpu.registers[A] = 18

\* C13: INX rp and DCX rp leave every bit of F unchanged; INR r and DCR r,
\* M included, leave CY unchanged and change only S, Z, P and AC, also when
\* the operand wraps from 0xFF to 0x00 or from 0x00 to 0xFF.
C13_CountersKeepCarry ==
    /\ (Returned("execute") /\ last.instr.op \in {"Inx", "Dcx"}) =>
           cpu.registers[F] = prev.cpu.registers[F]
    /\ (Returned("execute") /\ last.instr.op \in {"Inr", "Dcr"}) =>
           \A bit \in 0..7 :
               bit \notin {Flag_S, Flag_Z, Flag_P, Flag_Ac} =>
                   (FlagAfter(bit) <=> FlagBefore(bit))

\* INR H has wrapped H from 0xFF to 0x00 with CY clear before and after
C13_Witness ==
    /\ Returned("execute")
    /\ last.instr.op = "Inr"
    /\ last.instr.r = H
    /\ prev.cpu.registers[H] = 255
    /\ cpu.registers[H] = 0
    /\ ~FlagBefore(Flag_Cy)
    /\ ~FlagAfter(Flag_Cy)
    /\ FlagAfter(Flag_Z)

\* the value of the pair operand of the last instruction before the call
PairBefore ==
    IF last.instr.rp = "SP" THEN prev.cpu.sp
    ELSE prev.cpu.registers[split(last.instr.rp)[1]] * 256
             + prev.cpu.registers[split(last.instr.rp)[2]]

HlBefore == prev.cpu.registers[H] * 256 + prev.cpu.registers[L]

\* C14: DAD rp, for B, D, H and SP: HL becomes (HL + rp) mod 2^16, CY is set
\* iff HL + rp >= 2^16, and S, Z, P, AC and every register other than H and L
\* are unchanged.  (The PC is kept below 0xFFFF so that stepping it cannot
\* be what fails.)
C14_DadAddsPair ==
    (last.op = "execute" /\ last.instr.op = "Dad" /\ prev.cpu.pc < 65535) =>
        /\ last.st = "Ok"
        /\ cpu.registers[H] * 256 + cpu.registers[L] = (HlBefore + PairBefore) % 65536
        /\ FlagAfter(Flag_Cy) <=> (HlBefore + PairBefore >= 65536)
        /\ \A bit \in 1..7 : FlagAfter(bit) <=> FlagBefore(bit)
        /\ \A r \in {A, B, C, D, E} : cpu.registers[r] = prev.cpu.registers[r]

\* C15: for every value of A, RLC followed at once by RRC succeeds, both of
\* them, and leaves A at its value before the RLC.  (The run starts at a PC
\* that the two one-byte steps cannot overflow.)
C15_RotateRoundTrip ==
    start.cpu.pc < 65534 =>
        /\ (steps = 1 /\ last.op = "execute" /\ last.instr.op = "Rlc") =>
               last.st = "Ok"
        /\ (steps = 2 /\ last.op = "execute" /\ last.instr.op = "Rrc") =>
               /\ last.st = "Ok"
               /\ cpu.registers[A] = start.cpu.registers[A]

ConditionalCallsAndRets ==
    {"Cz", "Cnz", "Cc", "Cnc", "Cpe", "Cpo", "Cp", "Cm",
     "Rz", "Rnz", "Rc", "Rnc", "Rpe", "Rpo", "Rp", "Rm"}

\* C16: execute returns the base cycle count plus 5 when a conditional CALL
\* or a conditional RET takes the branch (17 and 11), the base count (11 and
\* 5) when its predicate is false, and the base count for every other
\* instruction.
C16_TakenBranchCostsFiveMore ==
    Returned("execute") =>
        last.v = IF last.instr.op \in ConditionalCallsAndRets /\ Taken(last.instr.op)
                 THEN cycles(last.instr) + 5
                 ELSE cycles(last.instr)

\* address x lies in the k-th range the Ram records now
Recorded(x, k) ==
    ram.rom_ranges[k][1] <= x /\ x < ram.rom_ranges[k][1] + ram.rom_ranges[k][2]

\* the range of the register_rom call just made holds an address of a range
\* recorded before it
SharesAnAddress ==
    \E x \in last.arg[1]..(last.arg[1] + last.arg[2] - 1) : InSomeRange(x)

\* C17: after any sequence of register_rom calls on a memory of size N the
\* recorded ranges are pairwise disjoint and each has start + length <= N; a
\* call whose range would end beyond N is rejected with TooLongRomSection,
\* a call overlapping a recorded range is rejected, and a rejected call
\* records nothing.
C17_RangesDisjointAndInside ==
    /\ \A k \in 1..Len(ram.rom_ranges) :
           ram.rom_ranges[k][1] + ram.rom_ranges[k][2] <= ram_len(ram)
    /\ \A j, k \in 1..Len(ram.rom_ranges) :
           j < k => \A x \in 0..(ram_len(ram) + MaxRomLen) :
                        ~(Recorded(x, j) /\ Recorded(x, k))
    /\ last.op = "register_rom" =>
           /\ last.arg[1] + last.arg[2] > ram_len(prev.ram) =>
                  last.st = "TooLongRomSection"
           /\ SharesAnAddress => last.st # "Ok"
           /\ last.st # "Ok" => ram = prev.ram

\* two ranges of at least one byte are recorded, the second ending where the
\* buffer ends and starting where the first ends
C17_Witness ==
    /\ Len(ram.rom_ranges) = 2
    /\ ram.rom_ranges[1][2] >= 1
    /\ ram.rom_ranges[2][2] >= 1
    /\ ram.rom_ranges[2][1] = ram.rom_ranges[1][1] + ram.rom_ranges[1][2]
    /\ ram.rom_ranges[2][1] + ram.rom_ranges[2][2] = ram_len(ram)

\* C18: in every state reached by executing instructions after the ROM
\* registration, the bytes inside every registered ROM range are the bytes
\* register_rom copied there: no storing instruction (STA, STAX, SHLD,
\* MOV M,r, MVI M, INR M, DCR M, PUSH, CALL, RST, XTHL) changes a ROM byte.
C18_RomBytesKeptByStores ==
    \A k \in 1..Len(ram.rom_ranges) :
        \A x \in DOMAIN ram.ram :
            Recorded(x, k) => ram.ram[x] = start.ram.ram[x]

\* the last call has executed `op` with success: a call of execute, or a
\* call of process that the latch let through
Executed(op) ==
    /\ last.st = "Ok"
    /\ last.instr.op = op
    /\ last.op = "execute" \/ (last.op = "process" /\ prev.cpu.inte)

\* C19: the interrupt-enable latch is false at construction; after any
\* sequence of execute and process calls it is true iff the most recent
\* successfully executed EI or DI was an EI, false if there was none.  Call
\* by call: a successful EI sets it, a successful DI clears it, and every
\* other call, a failed execute and a process of any other instruction
\* included, leaves it as it was.
C19_LatchFollowsEiDi ==
    /\ steps = 0 => ~cpu.inte
    /\ steps > 0 =>
           cpu.inte = IF Executed("Ei") THEN TRUE
                      ELSE IF Executed("Di") THEN FALSE
                      ELSE prev.cpu.inte

\* EI, then an RST injected through process that the latch let through and
\* that pushed the PC: the latch is still set
C19_Witness ==
    /\ steps = 3
    /\ last.op = "process"
    /\ last.instr.op = "Rst"
    /\ last.st = "Ok"
    /\ cpu.sp = 2
    /\ prev.cpu.inte
    /\ cpu.inte

(***************************************************************************)
(* Properties of the decoder (SpecDecode)                                  *)
(***************************************************************************)
\* the byte of the buffer at the PC plus k
Fetched(k) == ram.ram[cpu.pc + k]

\* the bytes of the buffer that follow the one at the PC
Following == ram_len(ram) - cpu.pc - 1

\* the encoded length of the opcode at the PC
EncodedLength == op_code_to_argsize(Fetched(0))

\* C20: read_at(bytes, pc) is total and reads only inside bytes: it returns
\* the end-of-data error when pc >= len(bytes), the malformed-operand error
\* carrying the opcode when the encoded length L of the opcode is 2 or 3 and
\* fewer than L-1 bytes follow pc, and an instruction in every other case,
\* its two-byte operand assembled little-endian; it never panics.
C20_ReadAtIsTotal ==
    last.op = "next_instruction" =>
        /\ last.st # "Panic"
        /\ IF cpu.pc >= ram_len(ram) THEN last.st = "EndOfDataInstr"
           ELSE IF EncodedLength \in {2, 3} /\ Following < EncodedLength - 1
           THEN last.st = "EndOfDataParam" /\ last.err = <<Fetched(0)>>
           ELSE /\ last.st = "Ok"
                /\ EncodedLength = 2 => last.instr.b = Fetched(1)
                /\ (EncodedLength = 3 /\ last.instr.op # "Lxi") =>
                       last.instr.addr = Fetched(2) * 256 + Fetched(1)
                /\ (EncodedLength = 3 /\ last.instr.op = "Lxi") =>
                       last.instr.b = Fetched(1) /\ last.instr.b2 = Fetched(2)

\* CALL 0x12C3 has been fetched from the three bytes CD C3 12
C20_Witness ==
    /\ last.op = "next_instruction"
    /\ last.st = "Ok"
    /\ last.instr.op = "Call"
    /\ last.instr.addr = 4803
    /\ Fetched(1) = 195
    /\ Fetched(2) = 18

\* the opcode bytes that no 8080 instruction is assigned to
UnassignedOpCodes == {8, 16, 24, 32, 40, 48, 56, 203, 217, 221, 237, 253}

\* the opcode byte the last call worked on
OpCodeBefore == prev.ram.ram[prev.cpu.pc]

\* C21: every opcode byte that is assigned to no 8080 instruction decodes to
\* NOP with size 1 and never to an error, and executing it only advances
\* the PC by 1.
C21_UnassignedOpCodesAreNop ==
    /\ (last.op = "next_instruction" /\ cpu.pc < ram_len(ram)
            /\ Fetched(0) \in UnassignedOpCodes) =>
           /\ last.st = "Ok"
           /\ last.instr = I0("Nop")
           /\ size(last.instr) = 1
    /\ (last.op = "execute" /\ steps = 2 /\ OpCodeBefore \in UnassignedOpCodes) =>
           /\ last.st = "Ok"
           /\ cpu = [prev.cpu EXCEPT !.pc = prev.cpu.pc + 1]
           /\ ram = prev.ram
           /\ io = prev.io

\* 0xCB, the last byte of a one-byte buffer, has been fetched and executed
C21_Witness ==
    /\ last.op = "execute"
    /\ steps = 2
    /\ OpCodeBefore = 203
    /\ ram_len(ram) = 1
    /\ cpu.pc = 1

(***************************************************************************)
(* Properties of the additions (SpecAdd, SpecAlu)                          *)
(***************************************************************************)
\* C22: ADD r and ADI d8, ADD A and ADD M included, whatever CY was: A
\* becomes (a + b) mod 256 and CY is set iff a + b >= 256.
C22_AddCarry ==
    (Returned("execute") /\ last.instr.op \in {"Add", "Adi"}) =>
        /\ cpu.registers[A] = (prev.cpu.registers[A] + Operand) % 256
        /\ FlagAfter(Flag_Cy) <=> (prev.cpu.registers[A] + Operand >= 256)

\* ADD M has added 100 to 200 with CY set before: A = 44 and CY set
C22_Witness ==
    /\ Returned("execute")
    /\ last.instr.op = "Add"
    /\ last.instr.r = M
    /\ prev.cpu.registers[A] = 200
    /\ Operand = 100
    /\ FlagBefore(Flag_Cy)
    /\ cpu.registers[A] = 44
    /\ FlagAfter(Flag_Cy)

\* the carry or borrow that goes into the instruction just executed
CarryIn == IF FlagBefore(Flag_Cy) THEN 1 ELSE 0

\* C23: ADC r and ACI d8 with carry-in c = CY before the instruction: A
\* becomes (a + b + c) mod 256 and CY is set iff a + b + c >= 256, also
\* for b = 0xFF with c = 1.
C23_AdcCarry ==
    (Returned("execute") /\ last.instr.op \in {"Adc", "Aci"}) =>
        /\ cpu.registers[A] = (prev.cpu.registers[A] + Operand + CarryIn) % 256
        /\ FlagAfter(Flag_Cy) <=> (prev.cpu.registers[A] + Operand + CarryIn >= 256)

\* C24: SBB r and SBI d8 with borrow-in c = CY before the instruction: A
\* becomes (a - b - c) mod 256 and CY is set iff a - b - c < 0, also for
\* b = 0xFF with c = 1, where the result wraps back to a.
C24_SbbBorrow ==
    (Returned("execute") /\ last.instr.op \in {"Sbb", "Sbi"}) =>
        /\ cpu.registers[A] = (prev.cpu.registers[A] - Operand - CarryIn + 512) % 256
        /\ FlagAfter(Flag_Cy) <=> (prev.cpu.registers[A] - Operand - CarryIn < 0)

\* the carry an addition adds in: none for ADD and ADI, CY for ADC and ACI
AddedCarry == IF last.instr.op \in {"Adc", "Aci"} THEN CarryIn ELSE 0

\* C30: for ADD, ADI, ADC and ACI, AC is set iff
\* (a & 0x0F) + (b & 0x0F) + c_in > 0x0F, c_in the carry-in actually added.
C30_AuxiliaryCarryOfAdditions ==
    (Returned("execute") /\ last.instr.op \in {"Add", "Adi", "Adc", "Aci"}) =>
        (FlagAfter(Flag_Ac) <=>
            (prev.cpu.registers[A] % 16) + (Operand % 16) + AddedCarry > 15)

(***************************************************************************)
(* Properties of the I/O capability (Spec)                                 *)
(***************************************************************************)
\* the last call has run the instruction to its end: a call of execute, or
\* a call of process that the latch let through, that returned Ok
RanToItsEnd ==
    /\ last.st = "Ok"
    /\ last.op = "execute" \/ (last.op = "process" /\ prev.cpu.inte)

\* the calls the I/O capability has received during the last call of the
\* core
IoCalls == SubSeq(io, Len(prev.io) + 1, Len(io))

\* C25: the core calls the I/O capability exactly once per IN or OUT
\* instruction and never for any other instruction: OUT port calls
\* io.write(port, A) and changes no register or flag; IN port calls
\* io.read(port) and stores the returned byte in A, changing no flag; in
\* both cases the PC advances by 2.
C25_OneIoCallPerInOut ==
    last.op \in {"execute", "process"} =>
        /\ SubSeq(io, 1, Len(prev.io)) = prev.io
        /\ (RanToItsEnd /\ last.instr.op = "Out") =>
               /\ IoCalls = <<(<<"write", last.instr.b, prev.cpu.registers[A]>>)>>
               /\ cpu.registers = prev.cpu.registers
               /\ cpu.pc = (prev.cpu.pc + 2) % 65536
        /\ (RanToItsEnd /\ last.instr.op = "In") =>
               /\ Len(IoCalls) = 1
               /\ IoCalls[1][1] = "read"
               /\ IoCalls[1][2] = last.instr.b
               /\ cpu.registers = [prev.cpu.registers EXCEPT ![A] = IoCalls[1][3]]
               /\ cpu.pc = (prev.cpu.pc + 2) % 65536
        /\ ~(RanToItsEnd /\ last.instr.op \in {"In", "Out"}) => IoCalls = <<>>

\* IN 0xFF has read 0x5A from the port into A
C25_Witness ==
    /\ Returned("execute")
    /\ last.instr.op = "In"
    /\ last.instr.b = 255
    /\ io = <<(<<"read", 255, 90>>)>>
    /\ prev.cpu.registers[A] = 60
    /\ cpu.registers[A] = 90

(***************************************************************************)
(* Properties of the rotates, of DAA and of SPHL (SpecAlu, Spec)           *)
(***************************************************************************)
\* C26: RAL, for every A and CY: the new A is ((A << 1) | old CY) mod 256,
\* the new CY is the old bit 7 of A, and S, Z, P and AC are unchanged.
C26_RalRotatesThroughCarry ==
    (Returned("execute") /\ last.instr.op = "Ral") =>
        /\ cpu.registers[A] = ((prev.cpu.registers[A] * 2) % 256) + CarryIn
        /\ FlagAfter(Flag_Cy) <=> (prev.cpu.registers[A] >= 128)
        /\ \A bit \in {Flag_S, Flag_Z, Flag_P, Flag_Ac} :
               FlagAfter(bit) <=> FlagBefore(bit)

\* C27: execute(RLC) succeeds for every A, sets A to
\* ((A << 1) | (A >> 7)) mod 256 and CY to the old bit 7 of A, leaves S, Z,
\* P and AC unchanged and advances the PC by 1.
C27_RlcRotates ==
    (last.op = "execute" /\ last.instr.op = "Rlc") =>
        /\ last.st = "Ok"
        /\ cpu.registers[A] =
               ((prev.cpu.registers[A] * 2) % 256) + (prev.cpu.registers[A] \div 128)
        /\ FlagAfter(Flag_Cy) <=> (prev.cpu.registers[A] >= 128)
        /\ \A bit \in {Flag_S, Flag_Z, Flag_P, Flag_Ac} :
               FlagAfter(bit) <=> FlagBefore(bit)
        /\ cpu.pc = prev.cpu.pc + 1

\* C29: when the addition of 0x06 in the first step of DAA carries out of
\* bit 7 (A in 0xFA..0xFF on entry), CY is set when DAA completes, whatever
\* the addition of 0x60 in the second step produces.
C29_DaaCarryIsSticky ==
    (Returned("execute") /\ last.instr.op = "Daa" /\ prev.cpu.registers[A] >= 250) =>
        FlagAfter(Flag_Cy)

\* C28: execute(SPHL) succeeds and sets SP to HL, H the high byte and L the
\* low byte, changes no register, flag or memory byte and advances the PC
\* by 1.  (The PC is kept below 0xFFFF so that stepping it cannot be what
\* fails.)
C28_SphlLoadsSp ==
    (last.op = "execute" /\ last.instr.op = "Sphl" /\ prev.cpu.pc < 65535) =>
        /\ last.st = "Ok"
        /\ cpu.sp = HlBefore
        /\ cpu.registers = prev.cpu.registers
        /\ ram = prev.ram
        /\ cpu.pc = prev.cpu.pc + 1

(***************************************************************************)
(* Properties of the subtractions, the logic and the counters              *)
(***************************************************************************)
\* the borrow a subtraction takes in: none for SUB, SUI, CMP and CPI, CY for
\* SBB and SBI
BorrowIn == IF last.instr.op \in {"Sbb", "Sbi"} THEN CarryIn ELSE 0

\* C31: for SUB, SUI, SBB, SBI, CMP and CPI, AC is set iff
\* (a & 0x0F) + ((~b) & 0x0F) + (1 - c_in) > 0x0F, c_in the borrow-in; so
\* subtracting 0 from 0 with no borrow-in sets AC.
C31_AuxiliaryCarryOfSubtractions ==
    (Returned("execute")
        /\ last.instr.op \in {"Sub", "Sui", "Sbb", "Sbi", "Cmp", "Cpi"}) =>
        (FlagAfter(Flag_Ac) <=>
            (prev.cpu.registers[A] % 16) + ((255 - Operand) % 16) + (1 - BorrowIn) > 15)

\* the value of the pair operand of the last instruction after the call
PairAfter ==
    IF last.instr.rp = "SP" THEN cpu.sp
    ELSE cpu.registers[split(last.instr.rp)[1]] * 256
             + cpu.registers[split(last.instr.rp)[2]]

\* C32: INX rp and DCX rp succeed for B, D, H and SP and set the pair to
\* (rp + 1) mod 2^16 and (rp - 1) mod 2^16, the wraps 0xFFFF -> 0x0000 and
\* 0x0000 -> 0xFFFF and the carry between the two bytes included.  (The PC
\* is kept below 0xFFFF so that stepping it cannot be what fails.)
C32_InxDcxCountThePair ==
    (last.op = "execute" /\ last.instr.op \in {"Inx", "Dcx"} /\ prev.cpu.pc < 65535) =>
        /\ last.st = "Ok"
        /\ PairAfter = IF last.instr.op = "Inx" THEN (PairBefore + 1) % 65536
                       ELSE (PairBefore + 65535) % 65536

\* C33: SP arithmetic wraps modulo 2^16 for every SP: PUSH, CALL and RST
\* compute SP-1, SP-2 and the new SP = SP-2 modulo 2^16 also when SP is 0 or
\* 1, POP, RET and XTHL compute SP+1 and the new SP = SP+2 modulo 2^16 also
\* when SP is 0xFFFE or 0xFFFF, and none of them aborts on the wrap.  (The
\* PC is one that stepping over the instruction cannot overflow.)
C33_StackPointerWraps ==
    (last.op = "execute"
        /\ last.instr.op \in {"Push", "Call", "Rst", "Pop", "Ret", "Xthl"}
        /\ prev.cpu.pc + size(last.instr) < 65536) =>
        /\ last.st # "Panic"
        /\ last.st = "Ok" =>
               cpu.sp = CASE last.instr.op \in {"Push", "Call", "Rst"} ->
                                 (prev.cpu.sp + 65534) % 65536
                          [] last.instr.op \in {"Pop", "Ret"} ->
                                 (prev.cpu.sp + 2) % 65536
                          [] OTHER -> prev.cpu.sp

\* the bit positions at which a byte holds a 1, and the byte of a set of them
OnePositions(byte) == {k \in 0..7 : (byte \div (2 ^ k)) % 2 = 1}

ByteOfPositions(S) ==
    Cardinality(S \cap {0}) + 2 * Cardinality(S \cap {1})
    + 4 * Cardinality(S \cap {2}) + 8 * Cardinality(S \cap {3})
    + 16 * Cardinality(S \cap {4}) + 32 * Cardinality(S \cap {5})
    + 64 * Cardinality(S \cap {6}) + 128 * Cardinality(S \cap {7})

LogicOps == {"Ana", "Ani", "Ora", "Ori", "Xra", "Xri"}

\* the accumulator before the call combined bit by bit with the operand
BitwiseOfOperand ==
    LET x == OnePositions(prev.cpu.registers[A])
        y == OnePositions(Operand)
    IN  CASE last.instr.op \in {"Ana", "Ani"} -> ByteOfPositions(x \cap y)
          [] last.instr.op \in {"Ora", "Ori"} -> ByteOfPositions(x \cup y)
          [] OTHER -> ByteOfPositions((x \cup y) \ (x \cap y))

\* C34: ANA/ANI, ORA/ORI and XRA/XRI leave in A the bitwise AND, OR and XOR
\* of A with the operand, clear CY, and set S, Z and P from the new A, for
\* every A and for register, M and immediate operands.
C34_LogicOps ==
    (Returned("execute") /\ last.instr.op \in LogicOps) =>
        /\ cpu.registers[A] = BitwiseOfOperand
        /\ ~FlagAfter(Flag_Cy)
        /\ FlagAfter(Flag_S) <=> (BitwiseOfOperand >= 128)
        /\ FlagAfter(Flag_Z) <=> (BitwiseOfOperand = 0)
        /\ FlagAfter(Flag_P) <=> (Cardinality(OnePositions(BitwiseOfOperand)) % 2 = 0)

\* an XRA M entered with CY set that leaves 0xAA ^ 0x55 = 0xFF in A
C34_XraOfMemoryWithCarry ==
    /\ Returned("execute")
    /\ last.instr.op = "Xra"
    /\ last.instr.r = M
    /\ FlagBefore(Flag_Cy)
    /\ prev.cpu.registers[A] = 170
    /\ cpu.registers[A] = 255

\* the cost the 8080 data sheet gives an instruction whose operand may be M
PublishedCost ==
    CASE last.instr.op \in {"Add", "Adc", "Sub", "Sbb", "Ana", "Xra", "Ora", "Cmp"} ->
             (IF last.instr.r = M THEN 7 ELSE 4)
      [] last.instr.op = "Mov" ->
             (IF last.instr.r = M \/ last.instr.s = M THEN 7 ELSE 5)
      [] last.instr.op = "Mvi" -> (IF last.instr.r = M THEN 10 ELSE 7)
      [] OTHER -> (IF last.instr.r = M THEN 10 ELSE 5)

\* C35: the cycle count execute returns is 7 for ADD, ADC, SUB, SBB, ANA,
\* XRA, ORA and CMP of M and 4 of a register, 7 for a MOV to or from M and 5
\* otherwise, 10 for MVI M and 7 otherwise, 10 for INR M and DCR M and 5
\* otherwise.
C35_CyclesOfMemoryOperands ==
    (Returned("execute")
        /\ last.instr.op \in {"Add", "Adc", "Sub", "Sbb", "Ana", "Xra", "Ora", "Cmp",
                              "Mov", "Mvi", "Inr", "Dcr"}) =>
        /\ last.v = PublishedCost
        /\ cycles(last.instr) = PublishedCost

\* C37: when execute returns an error (a memory access out of bounds, a
\* write to ROM, an instruction the dispatcher does not implement), PC, SP
\* and INTE are what they were before the call.
C37_ErrorKeepsPcSpInte ==
    (last.op = "execute" /\ last.st \notin {"Ok", "Panic"}) =>
        /\ cpu.pc = prev.cpu.pc
        /\ cpu.sp = prev.cpu.sp
        /\ cpu.inte = prev.cpu.inte

\* a CALL whose stack lies outside the buffer has failed
C37_CallFailed ==
    /\ last.op = "execute"
    /\ last.instr.op = "Call"
    /\ last.st = "OutOfBoundRead"
    /\ prev.cpu.sp = 61440

\* C39: a register_rom call refused with TooLongRomSection or
\* OverlappingRomSections leaves the bytes and the recorded ranges as they
\* were; an accepted call changes no byte outside [offset, offset+len),
\* leaves the image inside it and appends exactly its own range.
C39_RegisterRomIsAllOrNothing ==
    (last.op = "register_rom") =>
        IF last.st = "Ok"
        THEN /\ \A x \in DOMAIN ram.ram :
                    ram.ram[x] = IF x >= last.arg[1] /\ x < last.arg[1] + last.arg[2]
                                 THEN 170 ELSE prev.ram.ram[x]
             /\ ram.rom_ranges = RangesBefore \o <<(<<last.arg[1], last.arg[2]>>)>>
        ELSE /\ last.st \in {"TooLongRomSection", "OverlappingRomSections"}
             /\ ram.ram = prev.ram.ram
             /\ ram.rom_ranges = RangesBefore

\* an image has been refused for overlapping one registered before it
C39_RefusedOverlap ==
    /\ last.op = "register_rom"
    /\ last.st = "OverlappingRomSections"
    /\ Len(RangesBefore) = 1
    /\ last.arg[2] > 0

\* C40: whenever read_at succeeds, the size of the instruction it returns is
\* the number of bytes the decoder consumed for the opcode (1, 2 or 3 by
\* op_code_to_argsize), for each of the 256 opcodes; so the execute that
\* follows, unless it transfers control, leaves the PC on the byte after the
\* last operand byte.
C40_SizeIsEncodedLength ==
    /\ (last.op = "next_instruction" /\ last.st = "Ok") =>
           size(last.instr) = EncodedLength
    /\ (Returned("execute") /\ steps = 2
            /\ last.instr.op \in {"Nop", "Mvi", "Lxi", "Out", "In", "Sta", "Lda", "Adi",
                                  "Mov", "Inx", "Stc", "Ei"}) =>
           cpu.pc = prev.cpu.pc + op_code_to_argsize(OpCodeBefore)

\* OUT 0x12 has been fetched from the two bytes D3 12
C40_OutFetched ==
    /\ last.op = "next_instruction"
    /\ last.st = "Ok"
    /\ last.instr.op = "Out"
    /\ Fetched(0) = 211
    /\ Fetched(1) = 18

(***************************************************************************)
(* SpecFrames: the animation-frame callback of the front-ends, the closure *)
(* of run (lib.rs) and EmulatorClosureState::game_js_loop (wasm.rs),       *)
(* driving a System that runs a small program                              *)
(***************************************************************************)
\* callbacks the browser makes in a run
MaxFrames == 3
\* length of the buffer of the emulated machine
HostRamSize == 26

system_frequency == 2000000

refresh_rate == 60

system_frequency_for_ms == system_frequency \div 1000

refresh_rate_irq_threshold == (system_frequency \div refresh_rate) \div 2

\* the program in ROM: the stack at the end of the buffer, HL on the main
\* loop, interrupts enabled; the handlers of RST 1 and RST 2 (EI, RET) at 8
\* and 16; the main loop (DAD B four times, PCHL) at 18
HostProgram ==
    <<49, HostRamSize, 0,  33, 18, 0,  251,  233,
      251, 201, 0, 0, 0, 0, 0, 0,
      251, 201,
      9, 9, 9, 9, 233, 233>>

\* Ram::new(..) and register_rom(rom, 0).unwrap() as the front-ends do
HostRam == register_rom(ram_new(HostRamSize), HostProgram, 0).ram

\* timestamps are counted in thirds of a millisecond: the callbacks of a
\* 120 Hz and of a 60 Hz display are 25 and 50 thirds apart
FrameIntervals == {25, 50}

\* the timestamp of the first callback
FirstTimestamps == {300}

\* Option<f64>::None
NoTime == 0 - 1

\* `dt as u64` of a difference of timestamps
dt_as_u64(dt) == dt \div 3

InitFrames ==
    /\ build \in Builds
    /\ cpu = cpu_new(0)
    /\ ram = HostRam
    /\ io = <<>>
    /\ last = NoCall
    /\ prev = Snapshot
    /\ start = Snapshot
    /\ todo = <<>>
    /\ steps = 0
    /\ \E k \in {"run", "game_js_loop"} :
          host = [kind |-> k, at |-> "idle", frames |-> 0, time |-> NoTime,
                  cycles_to_do |-> 0, cycles_done |-> 0,
                  next_refresh_irq |-> 1, cycle_count |-> 0, irqs |-> <<>>]

\* the callback is entered with current_time: game_js_loop declares
\* next_refresh_irq and cycle_count afresh, the closure of run has captured
\* them; the time of the previous callback gives the cycles to do.  With
\* nothing to do the while loop is not entered and the callback ends (the
\* frame buffer is drawn, which changes nothing of the System).
EnterFrame(current_time) ==
    LET time == IF host.time = NoTime THEN current_time ELSE host.time
        dt == current_time - time
        cycles_to_do == dt_as_u64(dt) * system_frequency_for_ms
    IN  host' = [host EXCEPT
                    !.frames = @ + 1,
                    !.time = current_time,
                    !.cycles_to_do = cycles_to_do,
                    !.cycles_done = 0,
                    !.next_refresh_irq = IF host.kind = "game_js_loop" THEN 1 ELSE @,
                    !.cycle_count = IF host.kind = "game_js_loop" THEN 0 ELSE @,
                    !.at = IF 0 < cycles_to_do THEN "loop" ELSE "idle"]

Frame ==
    /\ host.kind \in {"run", "game_js_loop"}
    /\ host.at = "idle"
    /\ host.frames < MaxFrames
    /\ \E t \in FirstTimestamps, d \in FrameIntervals :
          EnterFrame(IF host.time = NoTime THEN t ELSE host.time + d)
    /\ UNCHANGED <<cpu, ram, build, last, prev, io, todo, steps, start>>

\* a call has been made on the System inside the while loop and m is the
\* machine after it; the loop goes on while cycles_done < cycles_to_do
LoopCall(op, i, m, v, h) ==
    /\ cpu' = m.cpu
    /\ ram' = m.ram
    /\ io' = m.io
    /\ last' = CallRec(op, i, <<>>, m.st, v, <<>>)
    /\ prev' = Snapshot
    /\ steps' = steps + 1
    /\ host' = [h EXCEPT !.at = IF m.st # "Ok" THEN "dead"
                               ELSE IF h.cycles_done < h.cycles_to_do THEN "loop"
                               ELSE "idle"]
    /\ UNCHANGED <<build, todo, start>>

\* cycle_count has reached the threshold: process(Rst(next_refresh_irq)) is
\* called (q what it made of the machine), unwrapped, and the counters and
\* the phase move on
Inject(q, done, count) ==
    LoopCall("process", IByte("Rst", host.next_refresh_irq), q.m, q.v,
             [host EXCEPT
                 !.irqs = Append(@, host.next_refresh_irq),
                 !.next_refresh_irq = IF host.next_refresh_irq = 2 THEN 1 ELSE 2,
                 !.cycles_done = done + q.v,
                 !.cycle_count = count + q.v - refresh_rate_irq_threshold])

\* the instruction has been executed (e what it made of the machine): an Err
\* is fatal (dump_state and panic!), Ok(cycles) is added to both counters
Counted(i, e, inb, done, count) ==
    IF e.m.st # "Ok" THEN LoopCall("execute", i, e.m, e.v, host)
    ELSE IF count >= refresh_rate_irq_threshold
    THEN \E q \in {process(e.m, IByte("Rst", host.next_refresh_irq), inb)} :
             Inject(q, done, count)
    ELSE LoopCall("execute", i, e.m, e.v,
                  [host EXCEPT !.cycles_done = done, !.cycle_count = count])

\* one turn of the while loop of the callback
LoopStep ==
    /\ host.kind \in {"run", "game_js_loop"}
    /\ host.at = "loop"
    /\ \E f \in {next_instruction(Machine)} :
          IF f.st # "Ok"
          THEN LoopCall("next_instruction", f.instr, Fail(Machine, f.st), 0, host)
          ELSE \E inb \in InBytes :
                  \E e \in {execute(Machine, f.instr, inb)} :
                      Counted(f.instr, e, inb, host.cycles_done + e.v,
                              host.cycle_count + e.v)

NextFrames == Frame \/ LoopStep

SpecFrames == InitFrames /\ [][NextFrames]_vars

(***************************************************************************)
(* Properties of the frame loop (SpecFrames)                               *)
(***************************************************************************)
\* C36: the process calls of the whole run inject RST 1, RST 2, RST 1, ...
\* in strict alternation, starting with RST 1: the phase and the cycles
\* counted towards the next threshold carry over from one callback to the
\* next, so RST 1 is never injected twice in a row.
C36_InjectionsAlternate ==
    host.kind \in {"run", "game_js_loop"} =>
        \A k \in 1..Len(host.irqs) : host.irqs[k] = IF k % 2 = 1 THEN 1 ELSE 2

(***************************************************************************)
(* SpecGames: the exports of wasm.rs called from the page, cpu_test,       *)
(* space_invaders and stop, and the animation-frame closures they leave    *)
(* with the browser.  What a closure does to its emulator is the subject   *)
(* of SpecFrames; here the calls of game_js_loop are counted.              *)
(***************************************************************************)
\* games the page starts in a run
MaxGames == 3
\* animation frames the browser delivers in a run
MaxAnimationFrames == 3

\* static STOP_FLAG: Mutex<RunState> = Mutex::new(RunState::Stopping); no
\* emulator yet, no closure registered with requestAnimationFrame
InitGames ==
    /\ build \in Builds
    /\ cpu = cpu_new(0)
    /\ ram = ram_new(RamSize)
    /\ io = <<>>
    /\ last = NoCall
    /\ prev = Snapshot
    /\ start = Snapshot
    /\ todo = <<>>
    /\ steps = 0
    /\ host = [kind |-> "games", STOP_FLAG |-> "Stopping", games |-> <<>>,
               scheduled |-> <<>>, running |-> <<>>, frames |-> 0,
               stepped |-> {}, loops |-> <<>>]

stop_previous_game(h) == [h EXCEPT !.STOP_FLAG = "Stopping"]

\* cpu_test and space_invaders: the flag is lowered and raised again, an
\* emulator is built, moved into a closure, and the closure is registered
\* for the next animation frame
start_game(h, game) ==
    LET raised == [stop_previous_game(h) EXCEPT !.STOP_FLAG = "Running"]
    IN  [raised EXCEPT !.games = Append(@, game),
                       !.loops = Append(@, 0),
                       !.scheduled = Append(@, Len(h.games) + 1)]

\* an export has been called from the page, between two animation frames
PageCall(op, h) ==
    /\ host.kind = "games"
    /\ host.running = <<>>
    /\ host' = h
    /\ last' = CallRec(op, I0("Nop"), <<>>, "Ok", 0, <<>>)
    /\ UNCHANGED <<cpu, ram, build, prev, io, todo, steps, start>>

CpuTest ==
    /\ Len(host.games) < MaxGames
    /\ PageCall("cpu_test", start_game(host, "cpu_test"))

SpaceInvaders ==
    /\ Len(host.games) < MaxGames
    /\ PageCall("space_invaders", start_game(host, "space_invaders"))

Stop ==
    /\ host.kind = "games"
    /\ PageCall("stop", stop_previous_game(host))

\* the browser begins an animation frame: it takes the closures registered
\* so far and calls them one after the other
AnimationFrame ==
    /\ host.kind = "games"
    /\ host.running = <<>>
    /\ host.scheduled # <<>>
    /\ host.frames < MaxAnimationFrames
    /\ host' = [host EXCEPT !.running = host.scheduled, !.scheduled = <<>>,
                            !.frames = @ + 1, !.stepped = {}]
    /\ last' = CallRec("frame", I0("Nop"), <<>>, "Ok", 0, <<>>)
    /\ UNCHANGED <<cpu, ram, build, prev, io, todo, steps, start>>

\* the closure of game g: it returns when the flag reads Stopping; otherwise
\* it calls emulator.game_js_loop(current_time) and registers itself again
closure(h, g) ==
    IF h.STOP_FLAG = "Stopping" THEN h
    ELSE [h EXCEPT !.loops[g] = @ + 1,
                   !.stepped = @ \cup {g},
                   !.scheduled = Append(@, g)]

\* the browser calls the next closure of the frame
Callback ==
    /\ host.kind = "games"
    /\ host.running # <<>>
    /\ host' = [closure(host, Head(host.running)) EXCEPT !.running = Tail(@)]
    /\ last' = CallRec("callback", I0("Nop"), <<Head(host.running)>>, "Ok",
                       IF host.STOP_FLAG = "Stopping" THEN 0 ELSE 1, <<>>)
    /\ UNCHANGED <<cpu, ram, build, prev, io, todo, steps, start>>

NextGames == CpuTest \/ SpaceInvaders \/ Stop \/ AnimationFrame \/ Callback

SpecGames == InitGames /\ [][NextGames]_vars

(***************************************************************************)
(* Properties of the games (SpecGames)                                     *)
(***************************************************************************)
\* C38: starting a game stops the one before it: a closure of an earlier
\* game that is still registered finds the stop and does not step its
\* emulator again, so an animation frame steps at most one emulator, the one
\* of the game started last; and after stop() no emulator is stepped until a
\* game is started.
C38_StartingStopsThePrevious ==
    host.kind = "games" =>
        /\ Cardinality(host.stepped) <= 1
        /\ (last.op = "callback" /\ last.v = 1) => last.arg[1] = Len(host.games)
        /\ (last.op = "callback" /\ host.STOP_FLAG = "Stopping") => last.v = 0

====
